---- MODULE Spec2Model ----
(***************************************************************************)
(* A model of the buildpack build executor of the lifecycle:               *)
(* DefaultBuildpackTOML.Build and the functions it calls                   *)
(* (src/buildpacktoml.go, lines 45-294).                                   *)
(*                                                                         *)
(* One call of Build is one run of the state machine.  The caller, the     *)
(* file system, the BuildEnv collaborator and the bin/build child process  *)
(* are the environment: what they hand to Build is drawn from small sets.  *)
(***************************************************************************)
EXTENDS Integers, Sequences, FiniteSets, TLC

(***************************************************************************)
(* Bounds of the model.                                                    *)
(***************************************************************************)
\* longest input plan
MaxPlan == 2
\* longest bom list of launch.toml / build.toml and longest rewritten plan
MaxBOM == 2
\* longest unmet list of build.toml
MaxUnmet == 2
\* longest process list of launch.toml
MaxProcs == 2
\* most entries of the buildpack's layers directory
MaxLayers == 2
\* most mirrors of a run image
MaxMirrors == 2
\* most image names on the rebaser's command line
MaxImageNames == 2
\* most references in a call of EnsureReadAccess or EnsureWriteAccess
MaxRefs == 3
\* most entries of the handler's list of insecure registries
MaxInsecure == 2
\* most images of run.toml
MaxRunImages == 2

\* All sequences over S of length at most n.
SeqsUpTo(S, n) == UNION {[1..k -> S] : k \in 0..n}

(***************************************************************************)
(* Values.                                                                 *)
(***************************************************************************)
\* Errors.  kind "buildpack" is *lifecycle.Error with Type ErrTypeBuildpack;
\* every other error value is an ordinary Go error.
\* msg is the fixed text of the message and arg the value formatted into it.
NoErr == [kind |-> "none", msg |-> "", arg |-> ""]
PlainErr(m, a) == [kind |-> "plain", msg |-> m, arg |-> a]

\* The part of a Require's metadata map the executor looks at: the value
\* under the key "version", if any, and whether the map can be TOML-encoded.
MdNone == [t |-> "none"]
MdStr(s) == [t |-> "str", s |-> s]
MdInt(n) == [t |-> "int", n |-> n]
\* a map holding a map with a non-string key type (no "version" key)
MdBadKey == [t |-> "badkey"]

Digits == <<"0", "1", "2", "3", "4", "5", "6", "7", "8", "9">>

\* fmt.Sprintf("%v", version) for the metadata values of the model.
SprintfV(md) ==
  CASE md.t = "str" -> md.s
    [] md.t = "int" -> Digits[md.n + 1]

HasVersionKey(md) == md.t \in {"str", "int"}

Require(n, v, md) == [name |-> n, version |-> v, metadata |-> md]

\* Buildpack{ID, Version, API, Homepage} as it appears in a BOM entry.
NoBuildpack == [id |-> "", version |-> "", api |-> "", homepage |-> ""]
OtherBuildpack == [id |-> "B", version |-> "v9", api |-> "0.4", homepage |-> "hp"]

BOMEntryOf(req, bp) == [require |-> req, buildpack |-> bp]

\* Faulty variant of EmptyResult: the labels of launch.toml are kept.
LabelledResult ==
  [bom |-> <<>>, labels |-> <<[key |-> "some-key", value |-> "some-value"]>>,
   met |-> <<>>, processes |-> <<>>, slices |-> <<>>]

EmptyResult ==
  [bom |-> <<>>, labels |-> <<>>, met |-> <<>>, processes |-> <<>>, slices |-> <<>>]

(***************************************************************************)
(* Buildpack API versions: <<major, minor>>.                               *)
(***************************************************************************)
APIs == {<<0, 2>>, <<0, 4>>, <<0, 5>>, <<0, 6>>}

\* api.Version.Compare: -1, 0, 1 by major, then minor.
Compare(a, b) ==
  IF a[1] # b[1] THEN (IF a[1] < b[1] THEN -1 ELSE 1)
  ELSE IF a[2] # b[2] THEN (IF a[2] < b[2] THEN -1 ELSE 1)
  ELSE 0

APIString(a) == Digits[a[1] + 1] \o "." \o Digits[a[2] + 1]

(***************************************************************************)
(* The pure functions of buildpacktoml.go.                                 *)
(***************************************************************************)
\* Require.convertMetadataToVersion: an entry with metadata.version set and
\* an empty top-level version gets the metadata version as its version.
convertMetadataToVersion(r) ==
  IF HasVersionKey(r.metadata) /\ r.version = ""
  THEN [r EXCEPT !.version = SprintfV(r.metadata)]
  ELSE r

\* Faulty variant of AdaptPlan: converts for every API below 0.5.
AdaptPlanLoose(api, plan) ==
  IF Compare(api, <<0, 5>>) < 0
  THEN [i \in 1..Len(plan) |-> convertMetadataToVersion(plan[i])]
  ELSE plan

\* Build, lines 46-50: the entries of the plan are converted for API 0.2 only.
AdaptPlan(api, plan) ==
  IF Compare(api, <<0, 2>>) = 0
  THEN [i \in 1..Len(plan) |-> convertMetadataToVersion(plan[i])]
  ELSE plan

\* Faulty variant of MatchLoop: an empty top-level version counts as a mismatch.
RECURSIVE MatchLoopStrict(_, _)
MatchLoopStrict(bom, i) ==
  IF i > Len(bom) THEN NoErr
  ELSE LET entry == bom[i].require IN
       IF HasVersionKey(entry.metadata) /\ entry.version # SprintfV(entry.metadata)
       THEN PlainErr("top level version does not match metadata version", "")
       ELSE MatchLoopStrict(bom, i + 1)

\* The first error of the API < 0.5 loop of validateBOM, from entry i on.
RECURSIVE MatchLoop(_, _)
MatchLoop(bom, i) ==
  IF i > Len(bom) THEN NoErr
  ELSE LET entry == bom[i].require IN
       IF /\ HasVersionKey(entry.metadata)
          /\ entry.version # ""
          /\ entry.version # SprintfV(entry.metadata)
       THEN PlainErr("top level version does not match metadata version", "")
       ELSE MatchLoop(bom, i + 1)

\* Faulty variant of DeprecatedLoop: only the first entry is looked at.
DeprecatedLoopFirst(bom, i) ==
  IF i <= Len(bom) /\ i = 1 /\ bom[i].require.version # ""
  THEN PlainErr("bom entry '%s' has a top level version which is deprecated",
                bom[i].require.name)
  ELSE NoErr

\* The first error of the API >= 0.5 loop of validateBOM, from entry i on.
RECURSIVE DeprecatedLoop(_, _)
DeprecatedLoop(bom, i) ==
  IF i > Len(bom) THEN NoErr
  ELSE IF bom[i].require.version # ""
       THEN PlainErr("bom entry '%s' has a top level version which is deprecated",
                     bom[i].require.name)
       ELSE DeprecatedLoop(bom, i + 1)

validateBOM(bom, bpAPI) ==
  IF Compare(bpAPI, <<0, 5>>) < 0 THEN MatchLoop(bom, 1) ELSE DeprecatedLoop(bom, 1)

\* Faulty variant of UnmetLoop: the empty name is not told apart.
RECURSIVE UnmetLoopNoEmpty(_, _, _)
UnmetLoopNoEmpty(unmet, bpPlan, i) ==
  IF i > Len(unmet) THEN NoErr
  ELSE IF ~ \E j \in 1..Len(bpPlan) : unmet[i].name = bpPlan[j].name
       THEN PlainErr("unmet.name '%s' must match a requested dependency", unmet[i].name)
       ELSE UnmetLoopNoEmpty(unmet, bpPlan, i + 1)

\* validateUnmet, from unmet entry i on.
RECURSIVE UnmetLoop(_, _, _)
UnmetLoop(unmet, bpPlan, i) ==
  IF i > Len(unmet) THEN NoErr
  ELSE IF unmet[i].name = ""
       THEN PlainErr("unmet.name is required", "")
       ELSE IF ~ \E j \in 1..Len(bpPlan) : unmet[i].name = bpPlan[j].name
            THEN PlainErr("unmet.name '%s' must match a requested dependency",
                          unmet[i].name)
            ELSE UnmetLoop(unmet, bpPlan, i + 1)

validateUnmet(unmet, bpPlan) == UnmetLoop(unmet, bpPlan, 1)

\* names: the name of each require, in order.
RECURSIVE names(_)
names(requires) ==
  IF requires = <<>> THEN <<>>
  ELSE <<Head(requires).name>> \o names(Tail(requires))

\* Faulty variant of containsName: looks at the first unmet entry only.
containsNameFirst(unmet, name) == Len(unmet) > 0 /\ unmet[1].name = name

containsName(unmet, name) == \E i \in 1..Len(unmet) : unmet[i].name = name

\* Faulty variant of filter: removes nothing.
filterNone(entries, unmet) == entries

\* BuildpackPlan.filter: the entries whose name no unmet entry carries.
RECURSIVE filter(_, _)
filter(entries, unmet) ==
  IF entries = <<>> THEN <<>>
  ELSE IF ~ containsName(unmet, Head(entries).name)
       THEN <<Head(entries)>> \o filter(Tail(entries), unmet)
       ELSE filter(Tail(entries), unmet)

\* BuildpackPlan.toBOM: one BOM entry per plan entry, no buildpack yet.
toBOM(entries) == [i \in 1..Len(entries) |-> BOMEntryOf(entries[i], NoBuildpack)]

noAPI(bp) == [bp EXCEPT !.api = ""]
noHomepage(bp) == [bp EXCEPT !.homepage = ""]

\* Faulty variant of withBuildpack: an entry that names a buildpack keeps it.
withBuildpackIfUnset(bp, bom) ==
  [i \in 1..Len(bom) |->
     IF bom[i].buildpack = NoBuildpack
     THEN [bom[i] EXCEPT !.buildpack = noHomepage(noAPI(bp))]
     ELSE bom[i]]

\* withBuildpack: every entry attributed to bp, less its API and homepage.
withBuildpack(bp, bom) ==
  [i \in 1..Len(bom) |-> [bom[i] EXCEPT !.buildpack = noHomepage(noAPI(bp))]]

(***************************************************************************)
(* The buildpack descriptor (DefaultBuildpackTOML) and the build config.   *)
(***************************************************************************)
BpID == "A"
BpVersion == "v1"
BpHomepage == "Buildpack A Homepage"
BpPath == "/cnb/buildpacks/A/v1"
PlatformDir == "/platform"
EnvBuildpackDir == "CNB_BUILDPACK_DIR"

Descriptor(api, clearEnv) ==
  [api |-> api, id |-> BpID, version |-> BpVersion, homepage |-> BpHomepage,
   clearEnv |-> clearEnv, path |-> BpPath]

\* readOutputFiles, line 163: the identity the outputs are attributed to.
bpFromBpInfo(b) == [id |-> b.id, version |-> b.version, api |-> "", homepage |-> ""]

(***************************************************************************)
(* Files.  A file is missing, undecodable, or holds a decoded document.    *)
(***************************************************************************)
MissingFile == [k |-> "missing"]
BadFile == [k |-> "bad"]
PlanDoc(entries) == [k |-> "plan", entries |-> entries]
LaunchDoc(bom, labels, procs, slices) ==
  [k |-> "launch", bom |-> bom, labels |-> labels, processes |-> procs, slices |-> slices]
BuildDoc(bom, unmet) == [k |-> "build", bom |-> bom, unmet |-> unmet]

\* The zero values toml.DecodeFile leaves when the file does not exist.
ZeroLaunch == LaunchDoc(<<>>, <<>>, <<>>, <<>>)
ZeroBuild == BuildDoc(<<>>, <<>>)

Process(type, command, bpID) == [type |-> type, command |-> command, buildpackID |-> bpID]
Unmet(n) == [name |-> n]

\* The entries of the buildpack's layers directory, in the order ioutil.ReadDir
\* lists them (sorted by name): entry k is named LayerNames[k].
LayerNames == <<"layer1", "layer2", "layer3", "layer4">>
\* build:   a directory whose sibling <name>.toml decodes with build = true
\* nobuild: a directory whose sibling toml decodes with build = false
\* notoml:  a directory with no sibling toml
\* badtoml: a directory whose sibling toml does not decode
\* file:    a regular file, with a sibling toml that has build = true
LayerKinds == {"build", "nobuild", "notoml", "badtoml", "file"}

\* the layers directory of the test at lines 396-405: layer1 and layer3 are
\* build layers, layer2 has no toml
TestLayers == <<"build", "notoml", "build">>

IsDir(kind) == kind # "file"
\* Faulty variant of isBuild: the value of build is not looked at.
isBuildAnyTOML(kind) == kind \in {"build", "file", "nobuild"}

\* isBuild(path + ".toml")
isBuild(kind) == kind \in {"build", "file"}

(***************************************************************************)
(* The inputs of the model.                                                *)
(***************************************************************************)
PlanEntries ==
  { Require("a", "", MdNone), Require("b", "", MdStr("1")),
    Require("b", "2", MdInt(1)), Require("a", "", MdBadKey) }

\* entries a buildpack of API < 0.5 may leave in plan.toml
OutEntries ==
  { Require("a", "", MdNone), Require("c", "1", MdInt(1)),
    Require("b", "2", MdStr("1")) }

LaunchBOMs ==
  { BOMEntryOf(Require("a", "", MdNone), NoBuildpack),
    BOMEntryOf(Require("b", "", MdStr("1")), OtherBuildpack),
    BOMEntryOf(Require("b", "1", MdNone), NoBuildpack) }

BuildBOMs ==
  { BOMEntryOf(Require("a", "", MdNone), NoBuildpack),
    BOMEntryOf(Require("b", "1", MdNone), NoBuildpack) }

UnmetNames == {"", "a", "b"}

Procs == { Process("web", "cmd1", ""), Process("worker", "cmd2", "B") }

SampleLaunch ==
  LaunchDoc(<<BOMEntryOf(Require("a", "", MdNone), NoBuildpack),
              BOMEntryOf(Require("b", "", MdStr("1")), OtherBuildpack)>>,
            <<[key |-> "some-key", value |-> "some-value"]>>,
            <<Process("web", "cmd1", ""), Process("worker", "cmd2", "B")>>,
            <<[paths |-> <<"some-path">>]>>)

VersionedLaunch ==
  LaunchDoc(<<BOMEntryOf(Require("b", "1", MdNone), NoBuildpack)>>, <<>>, <<>>, <<>>)

RichLaunch ==
  {MissingFile, BadFile, SampleLaunch} \cup
  { LaunchDoc(bom, <<>>, procs, <<>>) :
      <<bom, procs>> \in
        (SeqsUpTo(LaunchBOMs, MaxBOM) \X {<<>>}) \cup ({<<>>} \X SeqsUpTo(Procs, MaxProcs)) }

RichBuild ==
  {MissingFile, BadFile} \cup
  { BuildDoc(bom, [i \in 1..Len(un) |-> Unmet(un[i])]) :
      <<bom, un>> \in
        (SeqsUpTo(BuildBOMs, MaxBOM) \X {<<>>}) \cup ({<<>>} \X SeqsUpTo(UnmetNames, MaxUnmet)) }

PoorBuild ==
  { MissingFile, BadFile, BuildDoc(<<>>, <<Unmet("a")>>),
    BuildDoc(<<BOMEntryOf(Require("b", "1", MdNone), NoBuildpack)>>, <<>>) }

RichPlanOut ==
  {MissingFile, BadFile} \cup {PlanDoc(e) : e \in SeqsUpTo(OutEntries, MaxBOM)}

(***************************************************************************)
(* State.                                                                  *)
(***************************************************************************)
VARIABLES
  pc,         \* where the call of Build stands
  bp,         \* the descriptor Build is called on
  planArg,    \* the plan the caller passed
  bpPlan,     \* Build's bpPlan, after the API 0.2 conversion
  fs,         \* the buildpack's layers directory and plan directory
  envCalls,   \* the calls made on config.Env, in order
  cmdEnv,     \* cmd.Env of the child, <<>> until it is composed
  child,      \* how cmd.Run ended: "none" (not run), "ok", "exit", "nostart"
  spawns,     \* how many times cmd.Run was called
  idx,        \* the directory entry the pending env call is for
  ingestErr,  \* the first error AddRootDir or AddEnvDir returned, NoErr if none
  launchTOML, \* readOutputFiles' launchTOML
  bpBuild,    \* readOutputFiles' bpBuild
  br,         \* the BuildResult returned
  err,        \* the error returned
  ret         \* the call in Build's body whose result Build returned, "" before

buildVars ==
  <<pc, bp, planArg, bpPlan, fs, envCalls, cmdEnv, child, spawns, idx, ingestErr,
    launchTOML, bpBuild, br, err, ret>>

\* The state of a call of BestRunImageMirrorFor (platform package).
VARIABLES
  mpc,            \* where the call stands
  targetRegistry, \* the registry of the image being exported or rebased
  runImageMD,     \* the run image metadata: image and mirrors
  runImageMirrors,\* the candidate list the call builds
  mi,             \* the candidate the loop under way stands at
  probes,         \* the calls of checkReadAccess, in order, with their results
  runImageRef,    \* the reference returned
  merr            \* the error returned

mirrorVars ==
  <<mpc, targetRegistry, runImageMD, runImageMirrors, mi, probes, runImageRef, merr>>

\* The state of a run of the rebaser command (cmd/lifecycle/rebaser.go).
VARIABLES
  rpc,     \* where the run stands
  flags,   \* the flags as the command line gave them
  rcmd,    \* the fields of rebaseCmd
  rmd,     \* the layers metadata decoded from the app image's label
  rlog,    \* what the run called, in order
  rerr     \* the error the run ended with

rebaseVars == <<rpc, flags, rcmd, rmd, rlog, rerr>>

\* The state of a call on the registry handler (image package).  Image
\* references and registry names are sequences of characters.
VARIABLES
  hpc,      \* where the call stands
  hcall,    \* the call: the kind of access, the references, the handler's insecure registries
  hi,       \* the reference the loop stands at
  hchecks,  \* the access checks made, in order
  hret,     \* the error returned
  hopts     \* what the last call of GetInsecureOptions returned

handlerVars == <<hpc, hcall, hi, hchecks, hret, hopts>>

\* The state of a call of GetRunImageForExport (platform package).
VARIABLES
  xpc,     \* where the call stands
  inputs,  \* the inputs, with what the files it reads hold
  xout,    \* the record returned
  xerr     \* the error returned

exportVars == <<xpc, inputs, xout, xerr>>

vars == <<buildVars, mirrorVars, rebaseVars, handlerVars, exportVars>>

EmptyFS ==
  [bpLayersDir |-> "absent", bpPlanDir |-> "absent", plan |-> MissingFile,
   launch |-> MissingFile, build |-> MissingFile, layers |-> <<>>]

Init ==
  /\ pc = "idle"
  /\ bp = Descriptor(<<0, 5>>, FALSE)
  /\ planArg = <<>>
  /\ bpPlan = <<>>
  /\ fs = EmptyFS
  /\ envCalls = <<>>
  /\ cmdEnv = <<>>
  /\ child = "none"
  /\ spawns = 0
  /\ idx = 0
  /\ ingestErr = NoErr
  /\ launchTOML = ZeroLaunch
  /\ bpBuild = ZeroBuild
  /\ br = EmptyResult
  /\ err = NoErr
  /\ ret = ""
  /\ mpc = "idle"
  /\ targetRegistry = ""
  /\ runImageMD = [image |-> "", mirrors |-> <<>>]
  /\ runImageMirrors = <<>>
  /\ mi = 0
  /\ probes = <<>>
  /\ runImageRef = ""
  /\ merr = NoErr
  /\ rpc = "idle"
  /\ flags = [runImageRef |-> "", deprecatedRunImageRef |-> "", useDaemon |-> FALSE]
  /\ rcmd = [imageNames |-> <<>>, runImageRef |-> "", deprecatedRunImageRef |-> "",
             useDaemon |-> FALSE, keychain |-> FALSE, docker |-> FALSE]
  /\ rmd = [image |-> "", mirrors |-> <<>>]
  /\ rlog = <<>>
  /\ rerr = NoErr
  /\ hpc = "idle"
  /\ hcall = [access |-> "", imageRefs |-> <<>>, insecureRegistry |-> <<>>]
  /\ hi = 0
  /\ hchecks = <<>>
  /\ hret = [msg |-> "", ref |-> <<>>]
  /\ hopts = <<>>
  /\ xpc = "idle"
  /\ inputs = [platformAPI |-> <<0, 12>>, runImageRef |-> "",
               stack |-> [err |-> NoErr, runImage |-> [image |-> "", mirrors |-> <<>>]],
               run |-> [err |-> NoErr, images |-> <<>>],
               buildMD |-> [err |-> NoErr, extensions |-> 0]]
  /\ xout = [image |-> "", mirrors |-> <<>>]
  /\ xerr = NoErr

\* Faulty variant of BuildStepAfter: the layers are ingested before the child runs.
BuildStepAfterIngestFirst(step) ==
  CASE step = "preparePaths" -> "setupEnv"
    [] step = "setupEnv" -> "runBuildCmd"
    [] step = "runBuildCmd" -> "readOutputFiles"

\* lines 52-65: the call Build makes after the call `step` returned nil
BuildStepAfter(step) ==
  CASE step = "preparePaths" -> "runBuildCmd"
    [] step = "runBuildCmd" -> "setupEnv"
    [] step = "setupEnv" -> "readOutputFiles"

\* return BuildResult{}, e  after the call `from` failed
Fail(e, from) ==
  /\ pc' = "done"
  /\ br' = EmptyResult
  /\ err' = e
  /\ ret' = from

(***************************************************************************)
(* Build, lines 45-50: the call and the API 0.2 conversion of the plan.    *)
(* The caller chooses the descriptor, the plan and what stands at the      *)
(* paths of the buildpack's layers and plan directories.                   *)
(***************************************************************************)
\* <<layers directory, plan directory, entries of the layers directory>>; the
\* layers directory may hold a layer of an earlier build
DirStates ==
  { <<"absent", "absent", <<>>>>, <<"dir", "dir", <<>>>>, <<"dir", "dir", <<"build">>>>,
    <<"file", "absent", <<>>>>, <<"absent", "file", <<>>>> }

Build(api, clearEnv, plan, dirs) ==
  /\ pc = "idle"
  \* bound: a clear-env build is explored with plans of at most one entry
  /\ clearEnv => Len(plan) <= 1
  /\ pc' = "preparePaths"
  /\ bp' = Descriptor(api, clearEnv)
  /\ planArg' = plan
  /\ bpPlan' = AdaptPlan(api, plan)
  /\ fs' = [EmptyFS EXCEPT !.bpLayersDir = dirs[1], !.bpPlanDir = dirs[2],
                           !.layers = dirs[3]]
  /\ UNCHANGED <<envCalls, cmdEnv, child, spawns, idx, ingestErr, launchTOML, bpBuild,
               br, err, ret>>

(***************************************************************************)
(* preparePaths, lines 68-84.                                              *)
(***************************************************************************)
Encodable(plan) == \A i \in 1..Len(plan) : plan[i].metadata # MdBadKey

\* Faulty variant of WriteTOML: what cannot be encoded is left out, without error.
WriteTOMLLenient(plan) ==
  [err |-> NoErr,
   file |-> PlanDoc(SelectSeq(plan, LAMBDA e : e.metadata # MdBadKey))]

\* WriteTOML(path, plan): the error and the file it leaves.
WriteTOML(plan) ==
  IF Encodable(plan)
  THEN [err |-> NoErr, file |-> PlanDoc(plan)]
  ELSE [err |-> PlainErr("toml: cannot encode a map with non-string key type", ""),
        file |-> MissingFile]

PreparePaths ==
  /\ pc = "preparePaths"
  /\ IF fs.bpLayersDir = "file"
     THEN /\ Fail(PlainErr("mkdir: not a directory", "layers"), "preparePaths")
          /\ UNCHANGED fs
     ELSE IF fs.bpPlanDir = "file"
     THEN /\ Fail(PlainErr("mkdir: not a directory", "plan"), "preparePaths")
          /\ fs' = [fs EXCEPT !.bpLayersDir = "dir"]
     ELSE LET w == WriteTOML(bpPlan) IN
          /\ fs' = [fs EXCEPT !.bpLayersDir = "dir", !.bpPlanDir = "dir", !.plan = w.file]
          /\ IF w.err # NoErr
             THEN Fail(w.err, "preparePaths")
             ELSE /\ pc' = BuildStepAfter("preparePaths")
                  /\ UNCHANGED <<br, err, ret>>
  /\ UNCHANGED <<bp, planArg, bpPlan, ingestErr, envCalls, cmdEnv, child, spawns, idx, launchTOML, bpBuild>>

(***************************************************************************)
(* runBuildCmd, lines 86-106: the child's environment.                     *)
(***************************************************************************)
\* what env.List() and env.WithPlatform(platformDir) render
ListVars == <<"TEST_ENV=cleared">>
PlatformVars == <<"TEST_ENV=Av1", "SOME_VAR=some-data">>

EnvCall(op, arg) == [op |-> op, arg |-> arg]

\* lines 98-101: which call renders the environment
EnvOp(clearEnv) == IF clearEnv THEN "List" ELSE "WithPlatform"

\* Faulty variant of ComposeEnv: the variable is put first.
ComposeEnvFirst(rendered, path) == <<EnvBuildpackDir \o "=" \o path>> \o rendered

\* line 106: cmd.Env = append(cmd.Env, EnvBuildpackDir+"="+b.Path)
ComposeEnv(rendered, path) == Append(rendered, EnvBuildpackDir \o "=" \o path)

RunBuildCmdEnv ==
  /\ pc = "runBuildCmd"
  /\ IF EnvOp(bp.clearEnv) = "List"
     THEN /\ envCalls' = Append(envCalls, EnvCall("List", ""))
          /\ cmdEnv' = ComposeEnv(ListVars, bp.path)
          /\ pc' = "cmdRun"
          /\ UNCHANGED <<br, err, ret>>
     ELSE /\ envCalls' = Append(envCalls, EnvCall("WithPlatform", PlatformDir))
          /\ \E ok \in BOOLEAN :
               IF ok
               THEN /\ cmdEnv' = ComposeEnv(PlatformVars, bp.path)
                    /\ pc' = "cmdRun"
                    /\ UNCHANGED <<br, err, ret>>
               ELSE /\ Fail(PlainErr("some error", "WithPlatform"), "runBuildCmd")
                    /\ UNCHANGED cmdEnv
  /\ UNCHANGED <<bp, planArg, bpPlan, ingestErr, fs, child, spawns, idx, launchTOML, bpBuild>>

(***************************************************************************)
(* runBuildCmd, lines 108-111: cmd.Run().  The child is the environment:   *)
(* it exits with status 0 ("ok") or not ("exit"), or cannot be started     *)
(* ("nostart"), and unless it never started it leaves the layers           *)
(* directory and plan.toml in a state of its choosing.                     *)
(*                                                                         *)
(* Bound: what the child leaves is drawn from two families.  In the first  *)
(* the layers vary freely and the output files are few; in the second      *)
(* there are no layers and the output files vary.                          *)
(***************************************************************************)
\* wrap the error of cmd.Run
NewLifecycleError(msg, type) == [kind |-> type, msg |-> msg, arg |-> ""]
ErrTypeBuildpack == "buildpack"

\* Faulty variant of RunError: the error of cmd.Run is returned unwrapped.
RunErrorPlain(exit) ==
  PlainErr(IF exit = "exit" THEN "exit status 1" ELSE "fork/exec: no such file", "")

RunError(exit) ==
  NewLifecycleError(IF exit = "exit" THEN "exit status 1" ELSE "fork/exec: no such file",
                    ErrTypeBuildpack)

Left(dir, layers, launch, build, plan) ==
  [dir |-> dir, layers |-> layers, launch |-> launch, build |-> build, plan |-> plan]

RewrittenPlan == PlanDoc(<<Require("c", "9", MdNone)>>)

\* written is plan.toml as preparePaths wrote it
LayersFamily(written) ==
  { Left("dir", layers, launch, MissingFile, written) :
      layers \in SeqsUpTo(LayerKinds, MaxLayers), launch \in {MissingFile, SampleLaunch} }
  \cup { Left(dir, <<>>, MissingFile, MissingFile, written) : dir \in {"absent", "unreadable"} }
  \cup { Left("dir", TestLayers, MissingFile, MissingFile, written) }

\* short: the input plan has at most one entry
FilesFamily(api, written, short) ==
  IF Compare(api, <<0, 5>>) < 0
  THEN { Left("dir", <<>>, launch, build, plan) :
           launch \in {MissingFile, SampleLaunch},
           build \in {MissingFile, BuildDoc(<<>>, <<Unmet("a")>>)},
           plan \in IF short THEN RichPlanOut \cup {written} ELSE {written} }
       \cup {Left("dir", <<>>, BadFile, MissingFile, written)}
  ELSE { Left("dir", <<>>, lb[1], lb[2], written) :
           lb \in (IF short THEN RichLaunch \X PoorBuild ELSE {})
                  \cup ({MissingFile, SampleLaunch} \X RichBuild) }
       \cup { Left("dir", <<>>, SampleLaunch, build, RewrittenPlan) : build \in PoorBuild }

ChildLeaves(exit) ==
  (IF Len(bpPlan) <= 1 THEN LayersFamily(fs.plan) ELSE {})
  \cup (IF exit = "ok" /\ ~ bp.clearEnv
        THEN FilesFamily(bp.api, fs.plan, Len(bpPlan) <= 1) ELSE {})
  \cup {Left("dir", <<>>, MissingFile, MissingFile, fs.plan)}

\* Faulty variant of RunFailed: a child that exits with a non-zero status passes.
RunFailedNoStart(exit) == exit = "nostart"

\* line 108: err != nil, for a child that did not start or did not exit with 0
RunFailed(exit) == exit # "ok"

CmdRun ==
  /\ pc = "cmdRun"
  /\ spawns' = spawns + 1
  /\ \E exit \in {"ok", "exit", "nostart"} :
       /\ child' = exit
       /\ IF exit = "nostart"
          THEN UNCHANGED fs
          ELSE \E left \in ChildLeaves(exit) :
                 fs' = [fs EXCEPT !.bpLayersDir = left.dir, !.layers = left.layers,
                                  !.launch = left.launch, !.build = left.build,
                                  !.plan = left.plan]
       /\ IF RunFailed(exit)
          THEN Fail(RunError(exit), "runBuildCmd")
          ELSE /\ pc' = BuildStepAfter("runBuildCmd")
               /\ UNCHANGED <<br, err, ret>>
  /\ UNCHANGED <<bp, planArg, bpPlan, ingestErr, envCalls, cmdEnv, idx, launchTOML, bpBuild>>

(***************************************************************************)
(* setupEnv, lines 114-133, with eachDir and isBuild, lines 135-159.       *)
(* Two passes over the directory listing: AddRootDir for every build       *)
(* layer, then AddEnvDir(env), AddEnvDir(env.build) for every build layer. *)
(* Each env call may fail; the first error is returned.                    *)
(***************************************************************************)
\* the entries from i on for which eachDir calls fn and fn makes an env call
BuildLayersFrom(i) ==
  {j \in i..Len(fs.layers) : IsDir(fs.layers[j]) /\ isBuild(fs.layers[j])}

Min(S) == CHOOSE x \in S : \A y \in S : x <= y

\* Go on with the first pass from entry i: the next AddRootDir, or the
\* second pass, or readOutputFiles when no entry makes an env call.
ContinueRootDirs(i) ==
  IF BuildLayersFrom(i) # {}
  THEN /\ pc' = "addRootDir"
       /\ idx' = Min(BuildLayersFrom(i))
  ELSE IF BuildLayersFrom(1) # {}
  THEN /\ pc' = "addEnvDir"
       /\ idx' = Min(BuildLayersFrom(1))
  ELSE /\ pc' = BuildStepAfter("setupEnv")
       /\ idx' = 0

\* Go on with the second pass from entry i.
ContinueEnvDirs(i) ==
  IF BuildLayersFrom(i) # {}
  THEN /\ pc' = "addEnvDir"
       /\ idx' = Min(BuildLayersFrom(i))
  ELSE /\ pc' = BuildStepAfter("setupEnv")
       /\ idx' = 0

\* ioutil.ReadDir at the start of eachDir
SetupEnv ==
  /\ pc = "setupEnv"
  /\ IF fs.bpLayersDir = "unreadable"
     THEN /\ Fail(PlainErr("readdir: permission denied", "layers"), "setupEnv")
          /\ UNCHANGED idx
     ELSE IF fs.bpLayersDir = "absent"
     THEN /\ pc' = BuildStepAfter("setupEnv")
          /\ UNCHANGED <<idx, br, err, ret>>
     ELSE /\ ContinueRootDirs(1)
          /\ UNCHANGED <<br, err, ret>>
  /\ UNCHANGED <<bp, planArg, bpPlan, ingestErr, fs, envCalls, cmdEnv, child, spawns, launchTOML, bpBuild>>

EnvError(op, arg) == PlainErr("some error", op \o " " \o arg)

\* Faulty variant of EachDirStops: the error of fn is dropped.
EachDirGoesOn(e) == FALSE

\* lines 146-148 and 120-122: eachDir returns the first error of fn, and
\* setupEnv returns the error of eachDir
EachDirStops(e) == e # NoErr

\* the first error an ingesting call returned
FirstErr(e) == IF ingestErr # NoErr THEN ingestErr ELSE e

AddRootDir ==
  /\ pc = "addRootDir"
  /\ envCalls' = Append(envCalls, EnvCall("AddRootDir", LayerNames[idx]))
  /\ \E e \in {NoErr, EnvError("AddRootDir", LayerNames[idx])} :
       /\ ingestErr' = FirstErr(e)
       /\ IF EachDirStops(e)
          THEN /\ Fail(e, "setupEnv")
               /\ UNCHANGED idx
          ELSE /\ ContinueRootDirs(idx + 1)
               /\ UNCHANGED <<br, err, ret>>
  /\ UNCHANGED <<bp, planArg, bpPlan, fs, cmdEnv, child, spawns, launchTOML, bpBuild>>

\* Faulty variant of EnvDirsOf: env.build comes first.
EnvDirsOfBuildFirst(path) == <<path \o "/env.build", path \o "/env">>

\* lines 128-131: the two directories AddEnvDir is called with, in call order
EnvDirsOf(path) == <<path \o "/env", path \o "/env.build">>

AddEnvDir ==
  /\ pc = "addEnvDir"
  /\ LET envDir == EnvDirsOf(LayerNames[idx])[1]
         envBuildDir == EnvDirsOf(LayerNames[idx])[2]
     IN \E outcome \in {"ok", "first fails", "second fails"} :
          \* what fn, lines 128-131, returns
          LET e == CASE outcome = "ok" -> NoErr
                     [] outcome = "first fails" -> EnvError("AddEnvDir", envDir)
                     [] outcome = "second fails" -> EnvError("AddEnvDir", envBuildDir)
          IN /\ envCalls' =
                  IF outcome = "first fails"
                  THEN Append(envCalls, EnvCall("AddEnvDir", envDir))
                  ELSE envCalls \o <<EnvCall("AddEnvDir", envDir),
                                     EnvCall("AddEnvDir", envBuildDir)>>
             /\ ingestErr' = FirstErr(e)
             /\ IF EachDirStops(e)
                THEN /\ Fail(e, "setupEnv")
                     /\ UNCHANGED idx
                ELSE /\ ContinueEnvDirs(idx + 1)
                     /\ UNCHANGED <<br, err, ret>>
  /\ UNCHANGED <<bp, planArg, bpPlan, fs, cmdEnv, child, spawns, launchTOML, bpBuild>>

(***************************************************************************)
(* readOutputFiles, lines 161-211.                                         *)
(***************************************************************************)
\* toml.DecodeFile into a zero value: the error and the value decoded.
\* A file that does not exist gives an os.IsNotExist error and leaves zero.
DecodeFile(file, zero) ==
  CASE file = MissingFile -> [err |-> PlainErr("open: no such file or directory", ""),
                              notExist |-> TRUE, val |-> zero]
    [] file = BadFile -> [err |-> PlainErr("toml: bad key", ""),
                          notExist |-> FALSE, val |-> zero]
    [] OTHER -> [err |-> NoErr, notExist |-> FALSE, val |-> file]

\* lines 204-206: every process is stamped with the buildpack's ID
StampProcesses(procs, id) == [i \in 1..Len(procs) |-> [procs[i] EXCEPT !.buildpackID = id]]

Returned(result, e, launch, build) ==
  [br |-> result, err |-> e, launchTOML |-> launch, bpBuild |-> build]

\* lines 203-210, given the BOM and Met of the API branch taken
Finish(b, launch, build, bom, met) ==
  LET procs == StampProcesses(launch.processes, b.id) IN
  Returned([bom |-> bom, labels |-> launch.labels, met |-> met,
            processes |-> procs, slices |-> launch.slices],
           NoErr, [launch EXCEPT !.processes = procs], build)

\* Faulty variant of ReadPlanBranch: the BOM is taken from launch.toml.
ReadPlanBranchFromLaunch(b, fsys, launch) ==
  LET p == DecodeFile(fsys.plan, PlanDoc(<<>>))
      bpPlanOut == p.val.entries
      e == validateBOM(toBOM(bpPlanOut), b.api)
  IN IF p.err # NoErr THEN Returned(EmptyResult, p.err, launch, ZeroBuild)
     ELSE IF e # NoErr THEN Returned(EmptyResult, e, launch, ZeroBuild)
     ELSE Finish(b, launch, ZeroBuild,
                 withBuildpack(bpFromBpInfo(b), launch.bom), names(bpPlanOut))

\* lines 172-182: buildpack API < 0.5
ReadPlanBranch(b, fsys, launch) ==
  LET p == DecodeFile(fsys.plan, PlanDoc(<<>>))
      bpPlanOut == p.val.entries
      e == validateBOM(toBOM(bpPlanOut), b.api)
  IN IF p.err # NoErr THEN Returned(EmptyResult, p.err, launch, ZeroBuild)
     ELSE IF e # NoErr THEN Returned(EmptyResult, e, launch, ZeroBuild)
     ELSE Finish(b, launch, ZeroBuild,
                 withBuildpack(bpFromBpInfo(b), toBOM(bpPlanOut)), names(bpPlanOut))

\* Faulty variant of ReadBuildBranch: the BOM of build.toml is added to the result.
ReadBuildBranchBothBOMs(b, fsys, bpPlanIn, launch) ==
  LET d == DecodeFile(fsys.build, ZeroBuild)
      build == d.val
      e1 == validateBOM(launch.bom, b.api)
      e2 == validateBOM(build.bom, b.api)
      e3 == validateUnmet(build.unmet, bpPlanIn)
  IN IF d.err # NoErr /\ ~ d.notExist THEN Returned(EmptyResult, d.err, launch, ZeroBuild)
     ELSE IF e1 # NoErr THEN Returned(EmptyResult, e1, launch, build)
     ELSE IF e2 # NoErr THEN Returned(EmptyResult, e2, launch, build)
     ELSE IF e3 # NoErr THEN Returned(EmptyResult, e3, launch, build)
     ELSE Finish(b, launch, build,
                 withBuildpack(bpFromBpInfo(b), launch.bom \o build.bom),
                 names(filter(bpPlanIn, build.unmet)))

\* lines 183-201: buildpack API >= 0.5
ReadBuildBranch(b, fsys, bpPlanIn, launch) ==
  LET d == DecodeFile(fsys.build, ZeroBuild)
      build == d.val
      e1 == validateBOM(launch.bom, b.api)
      e2 == validateBOM(build.bom, b.api)
      e3 == validateUnmet(build.unmet, bpPlanIn)
  IN IF d.err # NoErr /\ ~ d.notExist THEN Returned(EmptyResult, d.err, launch, ZeroBuild)
     ELSE IF e1 # NoErr THEN Returned(EmptyResult, e1, launch, build)
     ELSE IF e2 # NoErr THEN Returned(EmptyResult, e2, launch, build)
     ELSE IF e3 # NoErr THEN Returned(EmptyResult, e3, launch, build)
     ELSE Finish(b, launch, build,
                 withBuildpack(bpFromBpInfo(b), launch.bom),
                 names(filter(bpPlanIn, build.unmet)))

readOutputFiles(b, fsys, bpPlanIn) ==
  LET l == DecodeFile(fsys.launch, ZeroLaunch) IN
  IF l.err # NoErr /\ ~ l.notExist
  THEN Returned(EmptyResult, l.err, ZeroLaunch, ZeroBuild)
  ELSE IF Compare(b.api, <<0, 5>>) < 0
       THEN ReadPlanBranch(b, fsys, l.val)
       ELSE ReadBuildBranch(b, fsys, bpPlanIn, l.val)

ReadOutputFiles ==
  /\ pc = "readOutputFiles"
  /\ LET r == readOutputFiles(bp, fs, bpPlan) IN
       /\ br' = r.br
       /\ err' = r.err
       /\ launchTOML' = r.launchTOML
       /\ bpBuild' = r.bpBuild
  /\ pc' = "done"
  /\ ret' = "readOutputFiles"
  /\ UNCHANGED <<bp, planArg, bpPlan, ingestErr, fs, envCalls, cmdEnv, child, spawns, idx>>

BuildNext ==
  \/ \E api \in APIs, clearEnv \in BOOLEAN, plan \in SeqsUpTo(PlanEntries, MaxPlan),
        dirs \in DirStates : Build(api, clearEnv, plan, dirs)
  \/ PreparePaths
  \/ RunBuildCmdEnv
  \/ CmdRun
  \/ SetupEnv
  \/ AddRootDir
  \/ AddEnvDir
  \/ ReadOutputFiles

Next == BuildNext /\ UNCHANGED <<mirrorVars, rebaseVars, handlerVars, exportVars>>

Spec == Init /\ [][Next]_vars

(***************************************************************************)
(* Run image mirror selection: BestRunImageMirrorFor and byRegistry,       *)
(* src/unnamed/part_000 lines 60-102.  checkReadAccess is the caller's     *)
(* probe: each call of it succeeds or not.                                 *)
(***************************************************************************)
\* name.ParseReference(image, name.WeakValidation) and
\* ref.Context().RegistryStr(): a reference with no registry part is on the
\* default registry, and one with an upper-case repository does not parse
ParseReference(image) ==
  CASE image = "r.example/run" -> [ok |-> TRUE, registry |-> "r.example"]
    [] image = "r.example/mirror" -> [ok |-> TRUE, registry |-> "r.example"]
    [] image = "other.example/run" -> [ok |-> TRUE, registry |-> "other.example"]
    [] image = "cnb/run" -> [ok |-> TRUE, registry |-> "index.docker.io"]
    [] image = "r.example/app" -> [ok |-> TRUE, registry |-> "r.example"]
    [] image = "r.example/app:v2" -> [ok |-> TRUE, registry |-> "r.example"]
    [] image = "cnb/app" -> [ok |-> TRUE, registry |-> "index.docker.io"]
    [] OTHER -> [ok |-> FALSE, registry |-> ""]

ImageRefs == {"r.example/run", "r.example/mirror", "other.example/run", "cnb/run", "Bad/Ref"}
Registries == {"r.example", "other.example", "index.docker.io"}

RunImage(image, mirrors) == [image |-> image, mirrors |-> mirrors]

\* Faulty variant of Candidates: the mirrors come before the image.
CandidatesMirrorsFirst(md) == md.mirrors \o <<md.image>>

\* lines 65-66: the image, then the mirrors
Candidates(md) == <<md.image>> \o md.mirrors

\* Faulty variant of RegistryMatches: the registry is not compared.
RegistryMatchesAny(reg, image) == ParseReference(image).ok

\* lines 91-95: the reference parses and its registry is reg
RegistryMatches(reg, image) ==
  ParseReference(image).ok /\ reg = ParseReference(image).registry

Probe(image, ok, loop) == [image |-> image, ok |-> ok, loop |-> loop]

MirrorReturn(ref, e) ==
  /\ mpc' = "done"
  /\ runImageRef' = ref
  /\ merr' = e

\* lines 60-72: the call, up to the keychain
BestRunImageMirrorFor(reg, md) ==
  /\ mpc = "idle"
  /\ targetRegistry' = reg
  /\ runImageMD' = md
  /\ IF md.image = ""
     THEN /\ MirrorReturn("", PlainErr("missing run image metadata", ""))
          /\ UNCHANGED <<runImageMirrors, mi>>
     ELSE /\ runImageMirrors' = Candidates(md)
          /\ \E keychainOK \in BOOLEAN :
               IF keychainOK
               THEN /\ mpc' = "byRegistry"
                    /\ mi' = 1
                    /\ UNCHANGED <<runImageRef, merr>>
               ELSE /\ MirrorReturn("", PlainErr("unable to create keychain: %w", "some error"))
                    /\ UNCHANGED mi
  /\ UNCHANGED probes

\* lines 89-102 and 74-77: one turn of the loop of byRegistry, or its end
ByRegistry ==
  /\ mpc = "byRegistry"
  /\ UNCHANGED <<targetRegistry, runImageMD, runImageMirrors>>
  /\ IF mi > Len(runImageMirrors)
     THEN \* byRegistry returned "": go on with the second loop
          /\ mpc' = "firstAccessible"
          /\ mi' = 1
          /\ UNCHANGED <<probes, runImageRef, merr>>
     ELSE LET image == runImageMirrors[mi] IN
          IF ~ RegistryMatches(targetRegistry, image)
          THEN /\ mi' = mi + 1
               /\ UNCHANGED <<mpc, probes, runImageRef, merr>>
          ELSE \E ok \in BOOLEAN :
                 /\ probes' = Append(probes, Probe(image, ok, "byRegistry"))
                 /\ IF ok
                    THEN /\ MirrorReturn(image, NoErr)
                         /\ UNCHANGED mi
                    ELSE /\ mi' = mi + 1
                         /\ UNCHANGED <<mpc, runImageRef, merr>>

\* lines 79-86: one turn of the second loop, or its end
FirstAccessible ==
  /\ mpc = "firstAccessible"
  /\ UNCHANGED <<targetRegistry, runImageMD, runImageMirrors>>
  /\ IF mi > Len(runImageMirrors)
     THEN /\ MirrorReturn("", PlainErr("failed to find accessible run image", ""))
          /\ UNCHANGED <<mi, probes>>
     ELSE LET image == runImageMirrors[mi] IN
          \E ok \in BOOLEAN :
            /\ probes' = Append(probes, Probe(image, ok, "firstAccessible"))
            /\ IF ok
               THEN /\ MirrorReturn(image, NoErr)
                    /\ UNCHANGED mi
               ELSE /\ mi' = mi + 1
                    /\ UNCHANGED <<mpc, runImageRef, merr>>

MirrorNext ==
  \/ \E reg \in Registries, image \in ImageRefs \cup {""},
        mirrors \in SeqsUpTo(ImageRefs, MaxMirrors) :
        BestRunImageMirrorFor(reg, RunImage(image, mirrors)) /\ UNCHANGED <<buildVars, rebaseVars, handlerVars, exportVars>>
  \/ ByRegistry /\ UNCHANGED <<buildVars, rebaseVars, handlerVars, exportVars>>
  \/ FirstAccessible /\ UNCHANGED <<buildVars, rebaseVars, handlerVars, exportVars>>

MirrorSpec == Init /\ [][MirrorNext]_vars

(***************************************************************************)
(* The rebaser command, src/cmd/lifecycle/rebaser.go.  The command runner  *)
(* calls Args, then Privileges, then Exec, and stops at the first error.   *)
(* The registry, the daemon and the lifecycle package are the environment: *)
(* each call into them succeeds or fails.                                  *)
(***************************************************************************)
LayerMetadataLabel == "io.buildpacks.lifecycle.metadata"

CodeFailed == "CodeFailed"
CodeInvalidArgs == "CodeInvalidArgs"
CodeRebaseError == "CodeRebaseError"

\* cmd.FailErrCode(err, code, action): an *ErrorFail, never nil
FailErrCode(e, code, action) == [kind |-> "ErrorFail", msg |-> e, arg |-> action, code |-> code]
\* cmd.FailErr(err, action)
FailErr(e, action) == FailErrCode(e, CodeFailed, action)

\* a call the run made: what was called, on what, and how it ended
Did(op, arg, res) == [op |-> op, arg |-> arg, res |-> res]

AppNames == {"r.example/app", "r.example/app:v2", "cnb/app", "Bad/Ref"}
RunRefs == {"", "r.example/run"}
DeprecatedRunRefs == {"", "other.example/run"}
StackRunImages ==
  { RunImage("", <<>>), RunImage("cnb/run", <<>>),
    RunImage("other.example/run", <<"r.example/mirror">>) }

RebaseFails(e) ==
  /\ rpc' = "done"
  /\ rerr' = e

\* Faulty variant of ChosenRunImage: the deprecated flag is not looked at.
ChosenRunImageIgnoringDeprecated(runRef, deprecatedRef) == runRef

\* lines 58-60: the deprecated flag, when given, is the run image reference
ChosenRunImage(runRef, deprecatedRef) ==
  IF deprecatedRef # "" THEN deprecatedRef ELSE runRef

\* lines 46-67
Args(args, runRef, deprecatedRef, daemon) ==
  /\ rpc = "idle"
  /\ flags' = [runImageRef |-> runRef, deprecatedRunImageRef |-> deprecatedRef,
               useDaemon |-> daemon]
  /\ UNCHANGED <<rmd, rlog>>
  /\ IF Len(args) = 0
     THEN /\ RebaseFails(FailErrCode("at least one image argument is required",
                                     CodeInvalidArgs, "parse arguments"))
          /\ rcmd' = [rcmd EXCEPT !.runImageRef = runRef,
                                  !.deprecatedRunImageRef = deprecatedRef,
                                  !.useDaemon = daemon]
     ELSE \E tagsOK \in BOOLEAN :
            IF ~ tagsOK
            THEN /\ RebaseFails(FailErrCode("invalid destination tags", CodeInvalidArgs,
                                            "validate image tag(s)"))
                 /\ rcmd' = [rcmd EXCEPT !.imageNames = args, !.runImageRef = runRef,
                                         !.deprecatedRunImageRef = deprecatedRef,
                                         !.useDaemon = daemon]
            ELSE IF deprecatedRef # "" /\ runRef # ""
            THEN /\ RebaseFails(FailErrCode("supply only one of -run-image or (deprecated) -image",
                                            CodeInvalidArgs, "parse arguments"))
                 /\ rcmd' = [rcmd EXCEPT !.imageNames = args, !.runImageRef = runRef,
                                         !.deprecatedRunImageRef = deprecatedRef,
                                         !.useDaemon = daemon]
            ELSE /\ rcmd' = [rcmd EXCEPT !.imageNames = args,
                                         !.runImageRef = ChosenRunImage(runRef, deprecatedRef),
                                         !.deprecatedRunImageRef = deprecatedRef,
                                         !.useDaemon = daemon]
                 /\ rpc' = "privileges"
                 /\ UNCHANGED rerr

\* Faulty variant of NeedsDocker: the docker client is always initialised.
NeedsDockerAlways(daemon) == TRUE

\* line 76
NeedsDocker(daemon) == daemon

\* lines 69-87
Privileges ==
  /\ rpc = "privileges"
  /\ UNCHANGED <<flags, rmd>>
  /\ \E keychainOK, dockerOK, runAsOK \in BOOLEAN :
       IF ~ keychainOK
       THEN /\ rlog' = Append(rlog, Did("resolveKeychain", "", "error"))
            /\ RebaseFails(FailErr("some error", "resolve keychain"))
            /\ UNCHANGED rcmd
       ELSE IF NeedsDocker(rcmd.useDaemon) /\ ~ dockerOK
       THEN /\ rlog' = rlog \o <<Did("resolveKeychain", "", "ok"), Did("DockerClient", "", "error")>>
            /\ RebaseFails(FailErr("some error", "initialize docker client"))
            /\ rcmd' = [rcmd EXCEPT !.keychain = TRUE]
       ELSE LET acquired ==
                  rlog \o <<Did("resolveKeychain", "", "ok")>>
                       \o (IF NeedsDocker(rcmd.useDaemon)
                           THEN <<Did("DockerClient", "", "ok")>> ELSE <<>>)
            IN /\ rcmd' = [rcmd EXCEPT !.keychain = TRUE,
                                       !.docker = NeedsDocker(rcmd.useDaemon)]
               /\ IF runAsOK
                  THEN /\ rlog' = Append(acquired, Did("RunAs", "", "ok"))
                       /\ rpc' = "accessApp"
                       /\ UNCHANGED rerr
                  ELSE /\ rlog' = Append(acquired, Did("RunAs", "", "error"))
                       /\ RebaseFails(FailErr("some error", "exec as user %d:%d"))

\* how local.NewImage or remote.NewImage ends: an error, an image that is
\* not found, or an image that is found
AccessOutcomes == {"error", "notfound", "found"}

\* Faulty variant of AccessFailed: an image that is not found passes.
AccessFailedOnError(outcome) == outcome = "error"

\* lines 110 and 143: err != nil || !image.Found()
AccessFailed(outcome) == outcome # "found"

\* lines 97-109 and 130-142: which constructor is called, on what
NewImage(var, base, outcome) ==
  Did("NewImage",
      [var |-> var, name |-> rcmd.imageNames[1], base |-> base,
       via |-> IF rcmd.useDaemon THEN "local" ELSE "remote"],
      outcome)

\* lines 90-112
ExecAccessApp ==
  /\ rpc = "accessApp"
  /\ UNCHANGED <<flags, rcmd, rmd>>
  /\ IF ~ ParseReference(rcmd.imageNames[1]).ok
     THEN /\ RebaseFails(PlainErr("could not parse reference", rcmd.imageNames[1]))
          /\ UNCHANGED rlog
     ELSE \E outcome \in AccessOutcomes :
            /\ rlog' = Append(rlog, NewImage("appImage", rcmd.imageNames[1], outcome))
            /\ IF AccessFailed(outcome)
               THEN RebaseFails(FailErr(IF outcome = "error" THEN "some error" ELSE "",
                                        "access image to rebase"))
               ELSE /\ rpc' = "decodeLabel"
                    /\ UNCHANGED rerr

\* lines 114-117
ExecDecodeLabel ==
  /\ rpc = "decodeLabel"
  /\ UNCHANGED <<flags, rcmd>>
  /\ \/ /\ rlog' = Append(rlog, Did("DecodeLabel", LayerMetadataLabel, "error"))
        /\ RebaseFails(PlainErr("failed to unmarshal context of label", ""))
        /\ UNCHANGED rmd
     \/ \E md \in StackRunImages :
          /\ rlog' = Append(rlog, Did("DecodeLabel", LayerMetadataLabel, "ok"))
          /\ rmd' = md
          /\ rpc' = "resolveRunImage"
          /\ UNCHANGED rerr

\* lines 119-127
ExecResolveRunImage ==
  /\ rpc = "resolveRunImage"
  /\ UNCHANGED <<flags, rmd>>
  /\ IF rcmd.runImageRef # ""
     THEN /\ rpc' = "accessRun"
          /\ UNCHANGED <<rcmd, rlog, rerr>>
     ELSE IF rmd.image = ""
     THEN /\ RebaseFails(FailErrCode("-image is required when there is no stack metadata available",
                                     CodeInvalidArgs, "parse arguments"))
          /\ UNCHANGED <<rcmd, rlog>>
     ELSE \* md.Stack.BestRunImageMirror chooses among the image and its
          \* mirrors, or fails; on failure it returns ""
          LET registry == ParseReference(rcmd.imageNames[1]).registry IN
          \/ /\ rlog' = Append(rlog, Did("BestRunImageMirror", registry, "error"))
             /\ RebaseFails(PlainErr("failed to find run-image", ""))
             /\ rcmd' = [rcmd EXCEPT !.runImageRef = ""]
          \/ \E k \in 1..Len(Candidates(rmd)) :
               /\ rlog' = Append(rlog, Did("BestRunImageMirror", registry, Candidates(rmd)[k]))
               /\ rcmd' = [rcmd EXCEPT !.runImageRef = Candidates(rmd)[k]]
               /\ rpc' = "accessRun"
               /\ UNCHANGED rerr

\* lines 129-145
ExecAccessRun ==
  /\ rpc = "accessRun"
  /\ UNCHANGED <<flags, rcmd, rmd>>
  /\ \E outcome \in AccessOutcomes :
       /\ rlog' = Append(rlog, NewImage("newBaseImage", rcmd.runImageRef, outcome))
       /\ IF AccessFailed(outcome)
          THEN RebaseFails(FailErr(IF outcome = "error" THEN "some error" ELSE "",
                                   "access run image"))
          ELSE /\ rpc' = "rebase"
               /\ UNCHANGED rerr

\* lines 147-153
ExecRebase ==
  /\ rpc = "rebase"
  /\ UNCHANGED <<flags, rcmd, rmd>>
  /\ \E ok \in BOOLEAN :
       /\ rlog' = Append(rlog, Did("Rebase", Tail(rcmd.imageNames), IF ok THEN "ok" ELSE "error"))
       /\ IF ok
          THEN /\ rpc' = "writeReport"
               /\ UNCHANGED rerr
          ELSE RebaseFails(FailErrCode("some error", CodeRebaseError, "rebase"))

\* lines 154-157
ExecWriteReport ==
  /\ rpc = "writeReport"
  /\ UNCHANGED <<flags, rcmd, rmd>>
  /\ \E ok \in BOOLEAN :
       /\ rlog' = Append(rlog, Did("WriteTOML", "report.toml", IF ok THEN "ok" ELSE "error"))
       /\ rpc' = "done"
       /\ rerr' = IF ok THEN NoErr
                  ELSE FailErrCode("some error", CodeRebaseError, "write rebase report")

RebaseNext ==
  \/ \E args \in SeqsUpTo(AppNames, MaxImageNames), runRef \in RunRefs,
        deprecatedRef \in DeprecatedRunRefs, daemon \in BOOLEAN :
        Args(args, runRef, deprecatedRef, daemon) /\ UNCHANGED <<buildVars, mirrorVars, handlerVars, exportVars>>
  \/ Privileges /\ UNCHANGED <<buildVars, mirrorVars, handlerVars, exportVars>>
  \/ ExecAccessApp /\ UNCHANGED <<buildVars, mirrorVars, handlerVars, exportVars>>
  \/ ExecDecodeLabel /\ UNCHANGED <<buildVars, mirrorVars, handlerVars, exportVars>>
  \/ ExecResolveRunImage /\ UNCHANGED <<buildVars, mirrorVars, handlerVars, exportVars>>
  \/ ExecAccessRun /\ UNCHANGED <<buildVars, mirrorVars, handlerVars, exportVars>>
  \/ ExecRebase /\ UNCHANGED <<buildVars, mirrorVars, handlerVars, exportVars>>
  \/ ExecWriteReport /\ UNCHANGED <<buildVars, mirrorVars, handlerVars, exportVars>>

RebaseSpec == Init /\ [][RebaseNext]_vars

(***************************************************************************)
(* The registry handler, src/buildpack/generate_test.go lines 345-443      *)
(* (package image).  The registry is the environment: each access check    *)
(* passes or not.                                                          *)
(***************************************************************************)
\* strings.HasPrefix(s, prefix)
HasPrefix(s, prefix) == Len(prefix) <= Len(s) /\ SubSeq(s, 1, Len(prefix)) = prefix

\* remote.WithRegistrySetting(registry, true)
WithRegistrySetting(registry, insecure) == [registry |-> registry, insecure |-> insecure]

\* Faulty variant of GetInsecureOptions: an entry must be the whole reference.
GetInsecureOptionsExact(insecureRegistries, imageRef) ==
  LET RECURSIVE Loop(_)
      Loop(k) ==
        IF k > Len(insecureRegistries) THEN <<>>
        ELSE (IF imageRef = insecureRegistries[k]
              THEN <<WithRegistrySetting(insecureRegistries[k], TRUE)>> ELSE <<>>)
             \o Loop(k + 1)
  IN Loop(1)

\* lines 405-415
GetInsecureOptions(insecureRegistries, imageRef) ==
  LET RECURSIVE Loop(_)
      Loop(k) ==
        IF k > Len(insecureRegistries) THEN <<>>
        ELSE (IF HasPrefix(imageRef, insecureRegistries[k])
              THEN <<WithRegistrySetting(insecureRegistries[k], TRUE)>> ELSE <<>>)
             \o Loop(k + 1)
  IN Loop(1)

\* the image references and the insecure registries of the model
HandlerRefs == { <<>>, <<"a", "/", "x">>, <<"a", "b", "/", "x">>, <<"b", "/", "x">> }
InsecureEntries == { <<"a">>, <<"a", "b">>, <<"a", "/">>, <<"c">>, <<"a", "/", "x", "y">> }
HandlerInsecure == { <<>>, <<<<"a">>>>, <<<<"a", "b">>, <<"a">>>> }

HandlerOK == [msg |-> "", ref |-> <<>>]
AccessErr(msg, ref) == [msg |-> msg, ref |-> ref]

Check(access, ref, opts, ok) == [access |-> access, ref |-> ref, opts |-> opts, ok |-> ok]

\* Faulty variant of Skipped: no reference is skipped.
SkippedNever(imageRef) == FALSE

\* lines 418-420 and 432-434: an empty reference is not checked
Skipped(imageRef) == imageRef = <<>>

\* lines 426 and 440: the error of a failed check
AccessErrMsg(access) ==
  IF access = "read" THEN "ensure registry read access to %s"
  ELSE "ensure registry read/write access to %s"

\* lines 380-397: EnsureReadAccess (access = "read") or EnsureWriteAccess
\* (access = "read/write") is called
Ensure(access, imageRefs, insecureRegistry) ==
  /\ hpc = "idle"
  /\ hcall' = [access |-> access, imageRefs |-> imageRefs, insecureRegistry |-> insecureRegistry]
  /\ hpc' = "verify"
  /\ hi' = 1
  /\ UNCHANGED <<hchecks, hret, hopts>>

\* one turn of the loop, with verifyReadAccess or verifyReadWriteAccess
\* (lines 417-443), or the loop's end
Verify ==
  /\ hpc = "verify"
  /\ UNCHANGED hcall
  /\ IF hi > Len(hcall.imageRefs)
     THEN /\ hpc' = "done"
          /\ hret' = HandlerOK
          /\ UNCHANGED <<hi, hchecks, hopts>>
     ELSE LET imageRef == hcall.imageRefs[hi]
              opts == GetInsecureOptions(hcall.insecureRegistry, imageRef)
          IN /\ hopts' = opts
             /\ IF Skipped(imageRef)
                THEN /\ hi' = hi + 1
                     /\ UNCHANGED <<hpc, hchecks, hret>>
                ELSE \E ok \in BOOLEAN :
                       /\ hchecks' = Append(hchecks, Check(hcall.access, imageRef, opts, ok))
                       /\ IF ok
                          THEN /\ hi' = hi + 1
                               /\ UNCHANGED <<hpc, hret>>
                          ELSE /\ hpc' = "done"
                               /\ hret' = AccessErr(AccessErrMsg(hcall.access), imageRef)
                               /\ UNCHANGED hi

\* GetInsecureOptions called on its own
CallGetInsecureOptions(insecureRegistries, imageRef) ==
  /\ hpc = "idle"
  /\ hcall' = [access |-> "", imageRefs |-> <<imageRef>>, insecureRegistry |-> insecureRegistries]
  /\ hopts' = GetInsecureOptions(insecureRegistries, imageRef)
  /\ hpc' = "options"
  /\ UNCHANGED <<hi, hchecks, hret>>

HandlerNext ==
  \/ \E access \in {"read", "read/write"}, imageRefs \in SeqsUpTo(HandlerRefs, MaxRefs),
        insecureRegistry \in HandlerInsecure :
        Ensure(access, imageRefs, insecureRegistry)
          /\ UNCHANGED <<buildVars, mirrorVars, rebaseVars, exportVars>>
  \/ Verify /\ UNCHANGED <<buildVars, mirrorVars, rebaseVars, exportVars>>
  \/ \E insecureRegistries \in SeqsUpTo(InsecureEntries, MaxInsecure), imageRef \in HandlerRefs :
        CallGetInsecureOptions(insecureRegistries, imageRef)
          /\ UNCHANGED <<buildVars, mirrorVars, rebaseVars, exportVars>>

HandlerSpec == Init /\ [][HandlerNext]_vars

(***************************************************************************)
(* GetRunImageForExport, src/unnamed/part_000 lines 23-58.  What           *)
(* stack.toml, run.toml and the build metadata hold, or the error of       *)
(* reading them, is part of the inputs.                                    *)
(***************************************************************************)
\* iname.ParseMaybe: the fully qualified name of a reference that parses,
\* with the default registry and the default tag filled in, and the
\* reference itself when it does not parse
ParseMaybe(provided) ==
  CASE provided \in {"cnb/run", "cnb/run:latest", "index.docker.io/cnb/run:latest"} ->
         "index.docker.io/cnb/run:latest"
    [] provided \in {"r.example/run", "r.example/run:latest"} -> "r.example/run:latest"
    [] provided = "r.example/mirror" -> "r.example/mirror:latest"
    [] provided = "other.example/run" -> "other.example/run:latest"
    [] provided = "r.example/none" -> "r.example/none:latest"
    [] OTHER -> provided

\* files.RunImageForExport{}
NoRunImage == RunImage("", <<>>)

ReadOK(val) == [err |-> NoErr, runImage |-> val]
ReadFailed == [err |-> PlainErr("open: no such file or directory", ""), runImage |-> NoRunImage]

ExportAPIs == {<<0, 9>>, <<0, 12>>, <<0, 13>>}
ExportRefs == {"", "cnb/run:latest", "r.example/mirror", "r.example/none", "Bad/Ref"}
ExportImages ==
  { RunImage("cnb/run", <<>>),
    RunImage("other.example/run", <<"index.docker.io/cnb/run:latest", "Bad/Ref">>),
    RunImage("r.example/run:latest", <<"r.example/mirror">>) }
StackFiles == {ReadFailed, ReadOK(NoRunImage), ReadOK(RunImage("r.example/run", <<"r.example/mirror">>))}
RunFiles ==
  {[err |-> PlainErr("open: no such file or directory", ""), images |-> <<>>]}
    \cup {[err |-> NoErr, images |-> images] : images \in SeqsUpTo(ExportImages, MaxRunImages)}
BuildMDs ==
  { [err |-> PlainErr("toml: bad key", ""), extensions |-> 0],
    [err |-> NoErr, extensions |-> 0], [err |-> NoErr, extensions |-> 1] }

\* Faulty variant of MatchesRef: the mirrors are not looked at.
MatchesRefImageOnly(runImage, inputRef) == ParseMaybe(runImage.image) = inputRef

\* lines 40-47: the image or one of the mirrors is the requested reference
MatchesRef(runImage, inputRef) ==
  \/ ParseMaybe(runImage.image) = inputRef
  \/ \E k \in 1..Len(runImage.mirrors) : ParseMaybe(runImage.mirrors[k]) = inputRef

Exported(runImage, e) == [out |-> runImage, err |-> e]

\* lines 23-58
GetRunImageForExportOf(in) ==
  IF Compare(in.platformAPI, <<0, 12>>) < 0
  THEN IF in.stack.err # NoErr THEN Exported(NoRunImage, in.stack.err)
       ELSE Exported(in.stack.runImage, NoErr)
  ELSE IF in.run.err # NoErr THEN Exported(NoRunImage, in.run.err)
  ELSE IF Len(in.run.images) = 0 THEN Exported(NoRunImage, NoErr)
  ELSE LET inputRef == ParseMaybe(in.runImageRef)
           matching == {k \in 1..Len(in.run.images) : MatchesRef(in.run.images[k], inputRef)}
       IN IF matching # {} THEN Exported(in.run.images[Min(matching)], NoErr)
          ELSE IF in.buildMD.err # NoErr THEN Exported(NoRunImage, in.buildMD.err)
          ELSE IF in.buildMD.extensions > 0 THEN Exported(RunImage(in.runImageRef, <<>>), NoErr)
          ELSE Exported(in.run.images[1], NoErr)

GetRunImageForExport(in) ==
  /\ xpc = "idle"
  /\ inputs' = in
  /\ xout' = GetRunImageForExportOf(in).out
  /\ xerr' = GetRunImageForExportOf(in).err
  /\ xpc' = "done"

ExportNext ==
  \E api \in ExportAPIs, ref \in ExportRefs, stack \in StackFiles, run \in RunFiles,
     md \in BuildMDs :
    /\ GetRunImageForExport([platformAPI |-> api, runImageRef |-> ref, stack |-> stack,
                             run |-> run, buildMD |-> md])
    /\ UNCHANGED <<buildVars, mirrorVars, rebaseVars, handlerVars>>

ExportSpec == Init /\ [][ExportNext]_vars

(***************************************************************************)
(* Properties.                                                             *)
(***************************************************************************)
Done == pc = "done"
Succeeded == Done /\ err = NoErr
NewAPI == Compare(bp.api, <<0, 5>>) >= 0

\* the unmet list of build.toml as it stands on disk
UnmetOnDisk == IF fs.build.k = "build" THEN fs.build.unmet ELSE <<>>
\* the bom lists of the output files as they stand on disk
LaunchBOMOnDisk == IF fs.launch.k = "launch" THEN fs.launch.bom ELSE <<>>
BuildBOMOnDisk == IF fs.build.k = "build" THEN fs.build.bom ELSE <<>>

Range(seq) == {seq[i] : i \in 1..Len(seq)}

C2_MetIsInputMinusUnmet ==
  (Succeeded /\ NewAPI) =>
    LET unmetNames == {UnmetOnDisk[i].name : i \in 1..Len(UnmetOnDisk)}
        kept == SelectSeq(planArg, LAMBDA e : e.name \notin unmetNames)
    IN /\ Len(br.met) = Len(kept)
       /\ \A i \in 1..Len(kept) : br.met[i] = kept[i].name

C2_Witness ==
  /\ Succeeded /\ NewAPI
  /\ Len(planArg) = 2 /\ Len(br.met) = 1 /\ Len(UnmetOnDisk) = 2
  /\ UnmetOnDisk[2].name = planArg[1].name

\* C3 as claimed: for every API, after a successful Build each input plan
\* entry's name is in exactly one of Met and the unmet list Build read.
C3_ExactlyOneAnyAPI ==
  Succeeded =>
    \A i \in 1..Len(planArg) :
      (planArg[i].name \in Range(br.met)) # (planArg[i].name \in Range(names(bpBuild.unmet)))

\* C3 as amended: for API >= 0.5, after a successful Build each input plan
\* entry's name is in exactly one of Met and build.toml's unmet list.
C3_ExactlyOneNewAPI ==
  (Succeeded /\ NewAPI) =>
    \A i \in 1..Len(planArg) :
      (planArg[i].name \in Range(br.met)) # (planArg[i].name \in Range(names(UnmetOnDisk)))

C3_Witness ==
  /\ Succeeded /\ NewAPI
  /\ Len(planArg) = 2 /\ planArg[1].name # planArg[2].name
  /\ Len(br.met) = 1 /\ Len(UnmetOnDisk) = 1

DeprecatedMsg == "bom entry '%s' has a top level version which is deprecated"
MismatchMsg == "top level version does not match metadata version"
RequiredMsg == "unmet.name is required"
MustMatchMsg == "unmet.name '%s' must match a requested dependency"

\* Build got as far as validating the output of an API >= 0.5 buildpack:
\* the child exited with 0, the env took the layers, both files decoded.
ReachedBOMValidation ==
  /\ Done /\ NewAPI /\ ret = "readOutputFiles"
  /\ fs.launch # BadFile /\ fs.build # BadFile

HasTopLevelVersion(bom) == \E i \in 1..Len(bom) : bom[i].require.version # ""

\* C4: when Build validates the output of an API >= 0.5 buildpack, a BOM
\* entry of launch.toml or of build.toml with a non-empty top-level version
\* makes it fail with "top level version which is deprecated" and an empty
\* result; with no such entry in either file, BOM validation does not fail.
C4_TopLevelVersionDeprecated ==
  ReachedBOMValidation =>
    IF HasTopLevelVersion(LaunchBOMOnDisk) \/ HasTopLevelVersion(BuildBOMOnDisk)
    THEN err.msg = DeprecatedMsg /\ br = EmptyResult
    ELSE err.msg \notin {DeprecatedMsg, MismatchMsg}

C4_Witness ==
  /\ ReachedBOMValidation /\ err.msg = DeprecatedMsg
  /\ ~ HasTopLevelVersion(LaunchBOMOnDisk)
  /\ Len(BuildBOMOnDisk) = 2 /\ BuildBOMOnDisk[1].require.version = ""

\* Build got as far as validating the unmet list.
ReachedUnmetValidation ==
  /\ ReachedBOMValidation
  /\ ~ HasTopLevelVersion(LaunchBOMOnDisk) /\ ~ HasTopLevelVersion(BuildBOMOnDisk)

InvalidUnmet(u) == u.name = "" \/ \A j \in 1..Len(planArg) : planArg[j].name # u.name

\* C5: when Build validates the unmet list of an API >= 0.5 buildpack, it
\* fails if some unmet entry has an empty name or a name no input plan entry
\* has; the first such entry decides the error, "unmet.name is required" for
\* an empty name and "must match a requested dependency" otherwise.  If every
\* unmet name is non-empty and matches an input entry, validation passes and
\* Build succeeds.
C5_UnmetValidated ==
  ReachedUnmetValidation =>
    LET bad == {i \in 1..Len(UnmetOnDisk) : InvalidUnmet(UnmetOnDisk[i])} IN
    IF bad = {}
    THEN err = NoErr
    ELSE /\ br = EmptyResult
         /\ err.msg = (IF UnmetOnDisk[Min(bad)].name = "" THEN RequiredMsg ELSE MustMatchMsg)

C5_Witness ==
  /\ ReachedUnmetValidation /\ err.msg = RequiredMsg
  /\ Len(UnmetOnDisk) = 2 /\ ~ InvalidUnmet(UnmetOnDisk[1])

\* C6: for API < 0.5 a successful Build returns as BOM the entries of
\* plan.toml as the child left it, in file order, each attributed to the
\* buildpack, and as Met the names of those entries, whatever the input plan,
\* launch.toml's bom and build.toml hold.
C6_OldAPIReadsPlan ==
  (Succeeded /\ ~ NewAPI) =>
    /\ fs.plan.k = "plan"
    /\ Len(br.bom) = Len(fs.plan.entries)
    /\ Len(br.met) = Len(fs.plan.entries)
    /\ \A i \in 1..Len(fs.plan.entries) :
         /\ br.bom[i].require = fs.plan.entries[i]
         /\ br.bom[i].buildpack.id = bp.id
         /\ br.bom[i].buildpack.version = bp.version
         /\ br.met[i] = fs.plan.entries[i].name

C6_Witness ==
  /\ Succeeded /\ ~ NewAPI
  /\ Len(br.bom) = 2 /\ br.met[1] # br.met[2]
  /\ planArg # <<>> /\ fs.plan.entries # bpPlan
  /\ LaunchBOMOnDisk # <<>> /\ UnmetOnDisk # <<>>

\* Build got as far as validating the plan an API < 0.5 buildpack left.
ReachedPlanValidation ==
  /\ Done /\ ~ NewAPI /\ ret = "readOutputFiles"
  /\ fs.launch # BadFile /\ fs.plan.k = "plan"

Mismatched(r) ==
  /\ r.version # ""
  /\ r.metadata.t \in {"str", "int"}
  /\ r.version # (IF r.metadata.t = "str" THEN r.metadata.s ELSE Digits[r.metadata.n + 1])

\* C7: when Build validates the plan an API < 0.5 buildpack left, it fails
\* with "top level version does not match metadata version" exactly when
\* some entry has a non-empty top-level version and a metadata version whose
\* string form differs from it; otherwise the plan is accepted.
C7_VersionMismatch ==
  ReachedPlanValidation =>
    IF \E i \in 1..Len(fs.plan.entries) : Mismatched(fs.plan.entries[i])
    THEN err.msg = MismatchMsg /\ br = EmptyResult
    ELSE err = NoErr

C7_Witness ==
  /\ ReachedPlanValidation /\ err.msg = MismatchMsg
  /\ Len(fs.plan.entries) = 2 /\ ~ Mismatched(fs.plan.entries[1])
  /\ fs.plan.entries[1].version # ""

\* plan.toml has been written and the child has not run yet
PlanWritten == pc \in {"runBuildCmd", "cmdRun"}

\* C8: the plan.toml written before the child is spawned holds, for API 0.2,
\* the metadata version as top-level version of each input entry that has a
\* metadata version and an empty top-level version; for every other API it
\* holds the input entries unaltered.
C8_PlanWrittenForAPI ==
  PlanWritten =>
    /\ fs.plan.k = "plan"
    /\ Len(fs.plan.entries) = Len(planArg)
    /\ \A i \in 1..Len(planArg) :
         IF bp.api = <<0, 2>>
         THEN (planArg[i].metadata.t \in {"str", "int"} /\ planArg[i].version = "") =>
                /\ fs.plan.entries[i].version =
                     (IF planArg[i].metadata.t = "str" THEN planArg[i].metadata.s
                      ELSE Digits[planArg[i].metadata.n + 1])
                /\ fs.plan.entries[i].name = planArg[i].name
                /\ fs.plan.entries[i].metadata = planArg[i].metadata
         ELSE fs.plan.entries[i] = planArg[i]

C8_Witness ==
  /\ pc = "cmdRun" /\ bp.api = <<0, 2>>
  /\ Len(planArg) = 2
  /\ planArg[1].version = "" /\ fs.plan.entries[1].version = "1"
  /\ planArg[2].version = "2" /\ fs.plan.entries[2].version = "2"

\* C9: every output of a successful Build is attributed to the buildpack:
\* each BOM entry's buildpack is the descriptor's id and version with no API
\* and no homepage, each process has the descriptor's id as buildpackID, and
\* the processes are those of launch.toml in file order.
C9_OutputsAttributed ==
  Succeeded =>
    /\ \A i \in 1..Len(br.bom) :
         br.bom[i].buildpack =
           [id |-> bp.id, version |-> bp.version, api |-> "", homepage |-> ""]
    /\ LET onDisk == IF fs.launch.k = "launch" THEN fs.launch.processes ELSE <<>> IN
       /\ Len(br.processes) = Len(onDisk)
       /\ \A i \in 1..Len(onDisk) :
            /\ br.processes[i].buildpackID = bp.id
            /\ br.processes[i].type = onDisk[i].type
            /\ br.processes[i].command = onDisk[i].command

C9_Witness ==
  /\ Succeeded /\ NewAPI
  /\ Len(br.bom) = 2 /\ LaunchBOMOnDisk[2].buildpack = OtherBuildpack
  /\ Len(br.processes) = 2 /\ fs.launch.processes[2].buildpackID = "B"
  /\ br.processes[1].type # br.processes[2].type

\* the calls that render an environment, among the calls made on the env
RenderCalls == SelectSeq(envCalls, LAMBDA c : c.op \in {"List", "WithPlatform"})

\* C10: a Build that reaches the spawn step has made exactly one call that
\* renders the environment, List() if clear-env is set and
\* WithPlatform(platformDir) otherwise, and the child's environment is what
\* that call rendered followed by CNB_BUILDPACK_DIR=<buildpack root>.
C10_ChildEnvFromOneCall ==
  (pc = "cmdRun" \/ child # "none") =>
    /\ Len(RenderCalls) = 1
    /\ RenderCalls[1] =
         (IF bp.clearEnv THEN EnvCall("List", "") ELSE EnvCall("WithPlatform", PlatformDir))
    /\ Len(cmdEnv) >= 1
    /\ cmdEnv[Len(cmdEnv)] = "CNB_BUILDPACK_DIR=" \o bp.path
    /\ SubSeq(cmdEnv, 1, Len(cmdEnv) - 1) = (IF bp.clearEnv THEN ListVars ELSE PlatformVars)

C10_Witness ==
  /\ Succeeded /\ bp.clearEnv /\ child = "ok"
  /\ Len(envCalls) > 1 /\ envCalls[1].op = "List"

\* the calls that ingest layers, among the calls made on the env
IngestCalls == SelectSeq(envCalls, LAMBDA c : c.op \in {"AddRootDir", "AddEnvDir"})

\* the entries of the layers directory that are directories whose sibling
\* toml has build = true, in the order of their names
BuildDirNames ==
  LET RECURSIVE From(_)
      From(j) ==
        IF j > Len(fs.layers) THEN <<>>
        ELSE (IF fs.layers[j] = "build" THEN <<LayerNames[j]>> ELSE <<>>) \o From(j + 1)
  IN From(1)

\* the first pass over dirs, then the second
TwoPasses(dirs) ==
  LET RECURSIVE Second(_)
      Second(k) ==
        IF k > Len(dirs) THEN <<>>
        ELSE <<EnvCall("AddEnvDir", dirs[k] \o "/env"),
               EnvCall("AddEnvDir", dirs[k] \o "/env.build")>> \o Second(k + 1)
  IN [k \in 1..Len(dirs) |-> EnvCall("AddRootDir", dirs[k])] \o Second(1)

IsPrefix(a, b) == Len(a) <= Len(b) /\ SubSeq(b, 1, Len(a)) = a

\* setupEnv has returned nil
Ingested == pc = "readOutputFiles" \/ (Done /\ ret = "readOutputFiles")

\* C11: after a successful child exit the ingesting env calls are, in order,
\* AddRootDir(dir) for every directory with build = true in its sibling toml,
\* by name, and then AddEnvDir(dir/env), AddEnvDir(dir/env.build) for every
\* such directory, by name; no other entry of the layers directory gets a
\* call.  While ingestion is under way, or when it failed, the calls made
\* are a prefix of that sequence; before the child exited there are none.
C11_TwoPassesInNameOrder ==
  /\ child # "ok" => IngestCalls = <<>>
  /\ child = "ok" => IsPrefix(IngestCalls, TwoPasses(BuildDirNames))
  /\ Ingested => IngestCalls = TwoPasses(BuildDirNames)

C11_Witness ==
  /\ Ingested /\ fs.layers = TestLayers
  /\ Len(IngestCalls) = 6
  /\ IngestCalls[2] = EnvCall("AddRootDir", "layer3")
  /\ IngestCalls[3] = EnvCall("AddEnvDir", "layer1/env")

\* the positions of a call among the ingesting calls
PositionsOf(call) == {k \in 1..Len(IngestCalls) : IngestCalls[k] = call}

\* C12 as stated: once ingestion is complete, the three calls of every build
\* layer directory stand next to each other, AddRootDir(dir), AddEnvDir(dir/env),
\* AddEnvDir(dir/env.build), with no call for another directory in between.
C12_OneUnitPerDirectory ==
  Ingested =>
    \A j \in 1..Len(BuildDirNames) :
      \E k \in 1..Len(IngestCalls) - 2 :
        /\ IngestCalls[k] = EnvCall("AddRootDir", BuildDirNames[j])
        /\ IngestCalls[k + 1] = EnvCall("AddEnvDir", BuildDirNames[j] \o "/env")
        /\ IngestCalls[k + 2] = EnvCall("AddEnvDir", BuildDirNames[j] \o "/env.build")

\* C12: once ingestion is complete every build layer directory has got each
\* of AddRootDir(dir), AddEnvDir(dir/env), AddEnvDir(dir/env.build) exactly
\* once; AddEnvDir(dir/env.build) comes right after AddEnvDir(dir/env); and
\* every AddRootDir call, of any directory, comes before every AddEnvDir call,
\* so the AddRootDir calls of the later directories stand between a
\* directory's AddRootDir and its AddEnvDir calls.
C12_RootDirsBeforeEnvDirPairs ==
  Ingested =>
    /\ \A j \in 1..Len(BuildDirNames) :
         LET dir == BuildDirNames[j]
             root == PositionsOf(EnvCall("AddRootDir", dir))
             envd == PositionsOf(EnvCall("AddEnvDir", dir \o "/env"))
             envb == PositionsOf(EnvCall("AddEnvDir", dir \o "/env.build"))
         IN /\ Cardinality(root) = 1 /\ Cardinality(envd) = 1 /\ Cardinality(envb) = 1
            /\ \A e \in envd : e + 1 \in envb
            /\ \A r \in root, e \in envd :
                 e - r = 1 + (Len(BuildDirNames) - j) + 2 * (j - 1)
    /\ \A r, e \in 1..Len(IngestCalls) :
         (IngestCalls[r].op = "AddRootDir" /\ IngestCalls[e].op = "AddEnvDir") => r < e

C12_Witness ==
  /\ Ingested /\ fs.layers = <<"build", "build">>
  /\ IngestCalls[1] = EnvCall("AddRootDir", "layer1")
  /\ IngestCalls[2] = EnvCall("AddRootDir", "layer2")
  /\ IngestCalls[3] = EnvCall("AddEnvDir", "layer1/env")
  /\ IngestCalls[4] = EnvCall("AddEnvDir", "layer1/env.build")

\* the last call made on the env
LastEnvCall == envCalls[Len(envCalls)]

\* C13: once an AddRootDir or AddEnvDir call has returned an error, Build
\* has returned, with that very error; the failing call is the last call
\* made on the env; and readOutputFiles was not called: Build's return is
\* that of setupEnv, nothing was decoded and the result is empty.
C13_IngestErrorPropagated ==
  ingestErr # NoErr =>
    /\ Done /\ err = ingestErr /\ ret = "setupEnv"
    /\ ingestErr = EnvError(LastEnvCall.op, LastEnvCall.arg)
    /\ launchTOML = ZeroLaunch /\ bpBuild = ZeroBuild /\ br = EmptyResult

C13_Witness ==
  /\ ingestErr = EnvError("AddEnvDir", "layer1/env.build")
  /\ Done /\ fs.layers = <<"build", "build">> /\ fs.launch = SampleLaunch
  /\ Len(IngestCalls) = 4

EncodeMsg == "toml: cannot encode a map with non-string key type"

\* the plan the caller passed holds metadata that TOML cannot encode
Unencodable == \E i \in 1..Len(planArg) : planArg[i].metadata = MdBadKey

\* C14: a Build whose input plan cannot be TOML-encoded fails in
\* preparePaths: no call is ever made on the env, no environment is composed
\* and the child is never spawned.  Where preparePaths could create the two
\* directories the error is the encoding error.
C14_UnencodablePlanFailsFirst ==
  Unencodable =>
    /\ pc \in {"preparePaths", "done"}
    /\ envCalls = <<>> /\ cmdEnv = <<>> /\ spawns = 0 /\ child = "none"
    /\ Done =>
         /\ err # NoErr /\ ret = "preparePaths" /\ br = EmptyResult
         /\ (fs.bpLayersDir = "dir" /\ fs.bpPlanDir = "dir") => err.msg = EncodeMsg

C14_Witness ==
  /\ Unencodable /\ Done /\ err.msg = EncodeMsg
  /\ Len(planArg) = 2 /\ planArg[1].metadata # MdBadKey
  /\ ~ bp.clearEnv

\* C15: the child's environment is composed, and the child is run, before
\* any layer of the buildpack is ingested: a step that makes an AddRootDir or
\* AddEnvDir call is taken only after the child has exited, and it neither
\* renders an environment, nor alters the environment the child was given,
\* nor runs the child again; so every rendering call precedes every
\* ingesting call.
C15_ChildEnvPrecedesIngestion ==
  /\ [](\A r, k \in 1..Len(envCalls) :
          (envCalls[r].op \in {"List", "WithPlatform"}
             /\ envCalls[k].op \in {"AddRootDir", "AddEnvDir"}) => r < k)
  /\ [][IngestCalls' # IngestCalls =>
          /\ child = "ok" /\ child' = child /\ spawns = 1 /\ spawns' = spawns
          /\ cmdEnv # <<>> /\ cmdEnv' = cmdEnv
          /\ RenderCalls' = RenderCalls]_vars

C15_Witness ==
  /\ Ingested /\ IngestCalls # <<>> /\ bp.clearEnv
  /\ cmdEnv = ComposeEnv(ListVars, bp.path)
  /\ fs.layers = <<"nobuild", "build">>

(***************************************************************************)
(* Properties of run image mirror selection.                               *)
(***************************************************************************)
\* the selection went past the keychain and has returned
Selected == mpc = "done" /\ runImageMirrors # <<>> /\ merr.msg # "unable to create keychain: %w"

\* the candidate list as the caller sees it: the image, then the mirrors
CandidateList == <<runImageMD.image>> \o runImageMD.mirrors

\* the positions of the candidates that parse with the target registry
OnTarget ==
  {k \in 1..Len(CandidateList) :
     /\ ParseReference(CandidateList[k]).ok
     /\ ParseReference(CandidateList[k]).registry = targetRegistry}

ProbesOf(loop) == SelectSeq(probes, LAMBDA p : p.loop = loop)

\* the candidates at the positions of S, in list order
CandidatesAt(S) ==
  LET RECURSIVE From(_)
      From(k) ==
        IF k > Len(CandidateList) THEN <<>>
        ELSE (IF k \in S THEN <<CandidateList[k]>> ELSE <<>>) \o From(k + 1)
  IN From(1)

ImagesOf(ps) == [k \in 1..Len(ps) |-> ps[k].image]

\* all probes of ps but the last failed
OnlyLastMaySucceed(ps) == \A k \in 1..Len(ps) - 1 : ~ ps[k].ok

\* C16 as stated: when a candidate parses with the target registry, the
\* first such candidate in list order is the reference returned.
C16_FirstOnTargetReturned ==
  (Selected /\ OnTarget # {}) => runImageRef = CandidateList[Min(OnTarget)]

\* C16: the first loop probes the candidates that parse with the target
\* registry, in list order, and no other; it stops at the first probe that
\* succeeds and that candidate is the reference returned, whatever other
\* registries the candidates before it are on.  A candidate on the target
\* registry whose probe fails is passed over.
C16_FirstAccessibleOnTargetReturned ==
  LET ps == ProbesOf("byRegistry") IN
  /\ IsPrefix(ImagesOf(ps), CandidatesAt(OnTarget))
  /\ OnlyLastMaySucceed(ps)
  /\ (ps # <<>> /\ ps[Len(ps)].ok) =>
       /\ mpc = "done" /\ merr = NoErr
       /\ runImageRef = ps[Len(ps)].image
       /\ ProbesOf("firstAccessible") = <<>>
  /\ (mpc \in {"firstAccessible", "done"} /\ (ps = <<>> \/ ~ ps[Len(ps)].ok)
        /\ runImageMirrors # <<>> /\ merr.msg # "unable to create keychain: %w") =>
       ImagesOf(ps) = CandidatesAt(OnTarget)

C16_Witness ==
  /\ Selected /\ merr = NoErr
  /\ CandidateList = <<"other.example/run", "r.example/run", "r.example/mirror">>
  /\ targetRegistry = "r.example"
  /\ probes = <<Probe("r.example/run", FALSE, "byRegistry"),
                Probe("r.example/mirror", TRUE, "byRegistry")>>
  /\ runImageRef = "r.example/mirror"

\* no probe of the first loop succeeded
NoRegistryMatch ==
  LET ps == ProbesOf("byRegistry") IN \A k \in 1..Len(ps) : ~ ps[k].ok

\* C17: when the first loop chose no candidate, the second loop probes the
\* candidates in list order, the image and then the mirrors, and stops at
\* the first probe that succeeds: that candidate is returned.  When no
\* probe succeeds every candidate has been probed, the error is
\* "failed to find accessible run image" and no reference is returned.
C17_FirstAccessibleOrNotFound ==
  LET ps == ProbesOf("firstAccessible") IN
  /\ ps # <<>> => NoRegistryMatch
  /\ IsPrefix(ImagesOf(ps), CandidateList)
  /\ OnlyLastMaySucceed(ps)
  /\ (Selected /\ NoRegistryMatch) =>
       IF ps # <<>> /\ ps[Len(ps)].ok
       THEN runImageRef = ps[Len(ps)].image /\ merr = NoErr
       ELSE /\ ImagesOf(ps) = CandidateList
            /\ runImageRef = ""
            /\ merr = PlainErr("failed to find accessible run image", "")

C17_Witness ==
  /\ Selected
  /\ CandidateList = <<"r.example/run", "Bad/Ref", "other.example/run">>
  /\ targetRegistry = "r.example"
  /\ Len(probes) = 4 /\ probes[1].loop = "byRegistry"
  /\ \A k \in 1..4 : ~ probes[k].ok
  /\ merr.msg = "failed to find accessible run image"

\* C18: a Build that returns an error returns a result with no BOM, no
\* labels, no met, no processes and no slices, also when launch.toml had been
\* decoded before the error; and cmd.Run is called at most once in a Build.
C18_FailureLeavesNoResult ==
  /\ spawns <= 1
  /\ (Done /\ err # NoErr) =>
       /\ br.bom = <<>> /\ br.labels = <<>> /\ br.met = <<>>
       /\ br.processes = <<>> /\ br.slices = <<>>

C18_Witness ==
  /\ Done /\ err # NoErr /\ spawns = 1 /\ ret = "readOutputFiles"
  /\ launchTOML = SampleLaunch /\ launchTOML.labels # <<>>
  /\ br.labels = <<>>

\* C19 as stated: the step in which Build fails on a plan that cannot be
\* encoded leaves the buildpack's layers directory, its plan directory and
\* plan.toml as they were before the call.
C19_UnencodablePlanLeavesNoTrace ==
  [][(pc = "preparePaths" /\ Unencodable /\ err'.msg = EncodeMsg) => fs' = fs]_vars

\* the texts of the errors of validateBOM and validateUnmet
ValidationMsgs == {DeprecatedMsg, MismatchMsg, RequiredMsg, MustMatchMsg}

\* C20 as stated: when Build returns an error of validateBOM or validateUnmet
\* after the child exited with status 0, the buildpack's id can be read from
\* the error.
C20_ValidationErrorNamesBuildpack ==
  (Done /\ child = "ok" /\ err.msg \in ValidationMsgs) =>
    bp.id \in {err.kind, err.msg, err.arg}

(***************************************************************************)
(* Further properties of Build.                                            *)
(***************************************************************************)
\* C25: a Build that fails in preparePaths or in runBuildCmd, the child's
\* failure included, has made no AddRootDir and no AddEnvDir call: the only
\* call it can have made on the env is the one that renders the child's
\* environment.  A child that did not exit with 0 ends the Build at once,
\* whatever layers it left.
C25_EarlyFailureLeavesEnv ==
  /\ (Done /\ ret \in {"preparePaths", "runBuildCmd"}) =>
       /\ err # NoErr
       /\ IngestCalls = <<>> /\ ingestErr = NoErr
       /\ envCalls = RenderCalls /\ Len(envCalls) <= 1
  /\ child \in {"exit", "nostart"} => (Done /\ ret = "runBuildCmd")

C25_Witness ==
  /\ Done /\ child = "exit" /\ err.kind = ErrTypeBuildpack
  /\ fs.layers = <<"build", "build">>
  /\ Len(envCalls) = 1

\* C26: the BOM of a successful Build of an API >= 0.5 buildpack holds the
\* entries of launch.toml's bom, as many and in file order (name, version and
\* metadata; the buildpack of each is the one Build attributes it to).  The
\* bom of build.toml adds nothing to it, and Build succeeds only if no entry
\* of build.toml's bom has a top-level version.
C26_BOMFromLaunchOnly ==
  (Succeeded /\ NewAPI) =>
    /\ Len(br.bom) = Len(LaunchBOMOnDisk)
    /\ \A i \in 1..Len(LaunchBOMOnDisk) : br.bom[i].require = LaunchBOMOnDisk[i].require
    /\ \A i \in 1..Len(BuildBOMOnDisk) : BuildBOMOnDisk[i].require.version = ""

C26_Witness ==
  /\ Succeeded /\ NewAPI
  /\ Len(BuildBOMOnDisk) = 2 /\ fs.launch = MissingFile
  /\ br.bom = <<>>

(***************************************************************************)
(* Properties of the rebaser command.                                      *)
(***************************************************************************)
\* how a call that did not fail is logged
Passed(d) == d.res \notin {"error", "notfound"}

\* what Exec called, in order
ExecLog == SelectSeq(rlog, LAMBDA d : d.op \notin {"resolveKeychain", "DockerClient", "RunAs"})

\* the stages of Exec; the run image is resolved by a call only when no
\* reference was supplied
StageOf(d) ==
  CASE d.op = "NewImage" /\ d.arg.var = "appImage" -> 1
    [] d.op = "DecodeLabel" -> 2
    [] d.op = "BestRunImageMirror" -> 3
    [] d.op = "NewImage" /\ d.arg.var = "newBaseImage" -> 4
    [] d.op = "Rebase" -> 5
    [] d.op = "WriteTOML" -> 6

StagesDone == {StageOf(ExecLog[k]) : k \in 1..Len(ExecLog)}

\* C21: Exec runs its stages in order, each at most once and none before
\* the stages ahead of it (resolving the run image is a call only when no
\* reference was supplied); a stage that fails is the last call of the run,
\* which has ended; Rebase is called only after both images were found, and
\* the report is written only after Rebase succeeded.
C21_StagesInOrder ==
  /\ \A j, k \in 1..Len(ExecLog) : j < k => StageOf(ExecLog[j]) < StageOf(ExecLog[k])
  /\ \A s \in StagesDone : \A t \in 1..(s - 1) : t = 3 \/ t \in StagesDone
  /\ \A k \in 1..Len(rlog) :
       ~ Passed(rlog[k]) => (k = Len(rlog) /\ rpc = "done")
  /\ 5 \in StagesDone =>
       \E j, k \in 1..Len(ExecLog) :
         /\ StageOf(ExecLog[j]) = 1 /\ ExecLog[j].res = "found"
         /\ StageOf(ExecLog[k]) = 4 /\ ExecLog[k].res = "found"
  /\ 6 \in StagesDone => \E k \in 1..Len(ExecLog) : ExecLog[k].op = "Rebase" /\ ExecLog[k].res = "ok"

C21_Witness ==
  /\ rpc = "done" /\ StagesDone = {1, 2, 3, 4}
  /\ rlog[Len(rlog)].res = "notfound"

\* what Privileges called, in order
PrivLog == SelectSeq(rlog, LAMBDA d : d.op \in {"resolveKeychain", "DockerClient", "RunAs"})

OpsOf(log) == [k \in 1..Len(log) |-> log[k].op]

\* C22: Privileges resolves the keychain, then initialises the docker
\* client if and only if the daemon is used, then calls RunAs: RunAs is
\* called only after every acquisition before it succeeded, it is the last
\* call of Privileges, it is never called when an acquisition failed, and
\* the docker client is never initialised when useDaemon is not set.
C22_AcquireBeforeDrop ==
  /\ IsPrefix(OpsOf(PrivLog),
              IF rcmd.useDaemon THEN <<"resolveKeychain", "DockerClient", "RunAs">>
              ELSE <<"resolveKeychain", "RunAs">>)
  /\ \A k \in 1..Len(PrivLog) :
       PrivLog[k].op = "RunAs" =>
         /\ \A j \in 1..(k - 1) : PrivLog[j].res = "ok"
         /\ rcmd.keychain /\ rcmd.docker = flags.useDaemon
  /\ (\E k \in 1..Len(PrivLog) : PrivLog[k].op # "RunAs" /\ PrivLog[k].res = "error") =>
       /\ \A k \in 1..Len(PrivLog) : PrivLog[k].op # "RunAs"
       /\ rpc = "done"
  /\ rcmd.docker => flags.useDaemon

C22_Witness ==
  /\ flags.useDaemon /\ rpc = "accessApp"
  /\ OpsOf(rlog) = <<"resolveKeychain", "DockerClient", "RunAs">>

\* the run image reference the command line supplied, "" if none
Supplied ==
  IF flags.runImageRef # "" THEN flags.runImageRef ELSE flags.deprecatedRunImageRef

BothSupplied == flags.runImageRef # "" /\ flags.deprecatedRunImageRef # ""

\* the calls that access the new run image
RunAccesses == SelectSeq(rlog, LAMBDA d : d.op = "NewImage" /\ d.arg.var = "newBaseImage")
\* the calls that select a run image from the stack metadata
Selections == SelectSeq(rlog, LAMBDA d : d.op = "BestRunImageMirror")

\* C27: a command line with both -run-image and -image ends in Args with an
\* invalid-arguments error and nothing is called.  A reference supplied by
\* either flag is the base the run image is accessed with, and
\* BestRunImageMirror is not called.  With no reference supplied and no run
\* image in the decoded stack metadata, Exec ends with an invalid-arguments
\* error without accessing a run image; otherwise BestRunImageMirror is
\* called with the registry of the first image name and what it returns is
\* the base the run image is accessed with.
C27_RunImagePrecedence ==
  rpc # "idle" =>
    /\ BothSupplied =>
         /\ rpc = "done" /\ rerr.kind = "ErrorFail" /\ rerr.code = CodeInvalidArgs
         /\ rlog = <<>>
    /\ (Supplied # "" /\ ~ BothSupplied) =>
         /\ Selections = <<>>
         /\ \A k \in 1..Len(RunAccesses) : RunAccesses[k].arg.base = Supplied
         /\ rpc \in {"rebase", "writeReport"} => RunAccesses # <<>>
    /\ Supplied = "" =>
         /\ (rmd.image = "" /\ rpc \notin {"privileges", "accessApp", "decodeLabel", "resolveRunImage"}
               /\ \E k \in 1..Len(rlog) : rlog[k].op = "DecodeLabel" /\ rlog[k].res = "ok") =>
              /\ rpc = "done" /\ rerr.kind = "ErrorFail" /\ rerr.code = CodeInvalidArgs
              /\ Selections = <<>> /\ RunAccesses = <<>>
         /\ \A k \in 1..Len(Selections) :
              /\ rmd.image # ""
              /\ Selections[k].arg = ParseReference(rcmd.imageNames[1]).registry
         /\ \A k \in 1..Len(RunAccesses) :
              /\ Len(Selections) = 1
              /\ RunAccesses[k].arg.base = Selections[1].res

C27_Witness ==
  /\ rpc = "done" /\ rerr = NoErr
  /\ flags.runImageRef = "" /\ flags.deprecatedRunImageRef = ""
  /\ rcmd.imageNames = <<"cnb/app", "r.example/app">>
  /\ Selections = <<Did("BestRunImageMirror", "index.docker.io", "r.example/mirror")>>
  /\ RunAccesses[1].arg.base = "r.example/mirror"

(***************************************************************************)
(* Properties of the registry handler.                                     *)
(***************************************************************************)
\* the references of the call that are not empty, in argument order
NonEmptyRefs == SelectSeq(hcall.imageRefs, LAMBDA ref : ref # <<>>)

RefsOf(checks) == [k \in 1..Len(checks) |-> checks[k].ref]

\* C23: EnsureReadAccess and EnsureWriteAccess check the non-empty
\* references in argument order, with the access they are named for, and
\* never an empty one; all checks but the last passed; the call returns nil
\* exactly when every non-empty reference was checked and passed, and
\* otherwise the error of the first failing reference, which names it, the
\* references after it not being checked.
C23_EnsureAccess ==
  hcall.access # "" =>
    /\ IsPrefix(RefsOf(hchecks), NonEmptyRefs)
    /\ \A k \in 1..Len(hchecks) : hchecks[k].access = hcall.access
    /\ \A k \in 1..Len(hchecks) - 1 : hchecks[k].ok
    /\ hpc = "done" =>
         IF hchecks # <<>> /\ ~ hchecks[Len(hchecks)].ok
         THEN hret = AccessErr(IF hcall.access = "read"
                               THEN "ensure registry read access to %s"
                               ELSE "ensure registry read/write access to %s",
                               hchecks[Len(hchecks)].ref)
         ELSE hret = HandlerOK /\ RefsOf(hchecks) = NonEmptyRefs

C23_Witness ==
  /\ hpc = "done" /\ hcall.access = "read"
  /\ hcall.imageRefs = << <<"a", "/", "x">>, <<>>, <<"b", "/", "x">> >>
  /\ Len(hchecks) = 2 /\ ~ hchecks[2].ok
  /\ hret.ref = <<"b", "/", "x">>

\* entry is what ref starts with
StartsWith(ref, entry) ==
  /\ Len(entry) <= Len(ref)
  /\ \A j \in 1..Len(entry) : ref[j] = entry[j]

\* C24: GetInsecureOptions returns one option, insecure and for that entry,
\* for each entry of the list that the image reference starts with, in the
\* order of the list, and none for any other entry: none at all for an empty
\* list or when no entry matches.
C24_InsecureOptionsByPrefix ==
  hpc = "options" =>
    LET imageRef == hcall.imageRefs[1]
        matching == SelectSeq(hcall.insecureRegistry, LAMBDA e : StartsWith(imageRef, e))
    IN /\ Len(hopts) = Len(matching)
       /\ \A k \in 1..Len(matching) :
            hopts[k].registry = matching[k] /\ hopts[k].insecure = TRUE

C24_Witness ==
  /\ hpc = "options"
  /\ hcall.imageRefs[1] = <<"a", "b", "/", "x">>
  /\ hcall.insecureRegistry = << <<"a", "b">>, <<"a">> >>
  /\ Len(hopts) = 2 /\ hopts[1].registry = <<"a", "b">> /\ hopts[2].registry = <<"a">>

(***************************************************************************)
(* Properties of GetRunImageForExport.                                     *)
(***************************************************************************)
\* the images of run.toml
RunTOML == inputs.run.images

\* entry k of run.toml names the requested reference, as image or as mirror
Names(k) ==
  LET all == <<RunTOML[k].image>> \o RunTOML[k].mirrors IN
  \E j \in 1..Len(all) : ParseMaybe(all[j]) = ParseMaybe(inputs.runImageRef)

\* no file the call reads gave an error
ExportedOK == xpc = "done" /\ xerr = NoErr

\* C28: a call that returns no error returns, for a platform API below
\* 0.12, the run image of stack.toml whatever reference was requested; for
\* 0.12 and above the empty record when run.toml has no images, else the
\* first entry of run.toml whose image or a mirror of which normalises to the
\* same name as the requested reference, else, when the build metadata has
\* extensions, a record with the requested reference as image and no
\* mirrors, else the first entry of run.toml.  The call returns an error
\* only when the file it has to read cannot be read.
C28_RunImageForExport ==
  xpc = "done" =>
    /\ ExportedOK =>
         IF inputs.platformAPI[1] = 0 /\ inputs.platformAPI[2] < 12
         THEN xout = inputs.stack.runImage
         ELSE IF RunTOML = <<>> THEN xout = [image |-> "", mirrors |-> <<>>]
         ELSE IF \E k \in 1..Len(RunTOML) : Names(k)
         THEN \E k \in 1..Len(RunTOML) :
                Names(k) /\ xout = RunTOML[k] /\ \A j \in 1..(k - 1) : ~ Names(j)
         ELSE IF inputs.buildMD.extensions > 0
         THEN xout = [image |-> inputs.runImageRef, mirrors |-> <<>>]
         ELSE xout = RunTOML[1]
    /\ xerr # NoErr =>
         /\ xout = [image |-> "", mirrors |-> <<>>]
         /\ xerr \in {inputs.stack.err, inputs.run.err, inputs.buildMD.err}

C28_Witness ==
  /\ ExportedOK /\ inputs.platformAPI = <<0, 13>>
  /\ inputs.runImageRef = "cnb/run:latest"
  /\ Len(RunTOML) = 2 /\ RunTOML[1].image = "r.example/run:latest"
  /\ xout = RunImage("other.example/run", <<"index.docker.io/cnb/run:latest", "Bad/Ref">>)
  /\ inputs.buildMD.extensions = 1

====
